---- MODULE Spec2Model ----
(***************************************************************************)
(* State-machine model of src/python/main.py (DaysUntilNextEvent): the     *)
(* light-sensor debouncer, the per-day CountdownState, and the             *)
(* CountdownApplication main loop (one tick = _main_loop_iteration).       *)
(*                                                                         *)
(* Conventions.                                                            *)
(*  - A date is a tuple <<year, month, day>>; a 'YYYY-MM-DD' string is the *)
(*    record [ok |-> TRUE, ymd |-> <<y, m, d>>], or [ok |-> FALSE, ...]    *)
(*    when the text does not parse (map(int, split('-')) raises).          *)
(*  - An 'HH:MM' string is the record [ok |-> TRUE, hm |-> <<h, m>>], or   *)
(*    [ok |-> FALSE, ...] when the text does not parse.                    *)
(*  - Angles are fixed point, one unit = 1/10000 radian; flash_speed is    *)
(*    fixed point, one unit = 1/10000 second.                              *)
(*  - Python objects that are shared by reference (CountdownState) live in *)
(*    the heap `objects`, addressed by an object id.                       *)
(*  - In the main loop the LED strip is kept as what it shows ("off",       *)
(*    "countdown", "breathing"); the pixel buffer of the NeoPixel (np) is  *)
(*    modelled pixel by pixel where the AnimationEngine is explored on its *)
(*    own (RenderSpec).                                                    *)
(*  - A '(R,G,B)' string is the record [ok |-> TRUE, rgb |-> <<r, g, b>>], *)
(*    or [ok |-> FALSE, ...] when the text does not parse.                 *)
(***************************************************************************)
EXTENDS Integers, Sequences, FiniteSets, TLC

\* ------------------------------------------------------------------------
\* Program constants
\* ------------------------------------------------------------------------

LDR_THRESHOLD == 700

CONSECUTIVE_READINGS_NEEDED == 25

\* ANIMATION_SPEED = 0.05 rad, in units of 1/10000 rad.
ANIMATION_SPEED == 500

\* 2 * math.pi, in units of 1/10000 rad.
TwoPi == 62832

\* The default flash interval (ms) used when flash_speed is not positive.
DefaultFlashIntervalMs == 2000

\* time.ticks_ms() wraps at 2^30 (MicroPython TICKS_PERIOD).
TicksPeriod == 1073741824

\* ------------------------------------------------------------------------
\* Bounds of the exploration
\* ------------------------------------------------------------------------

\* Number of main-loop iterations explored in one run.
MaxTicks == 52

\* Number of main-loop iterations explored under fairness.
FairTicks == 28

\* Longest run of equal consecutive sensor samples explored (the counters of
\* LightSensor are unbounded Python integers).
MaxCount == 27

\* Debouncer runs: number of samples fed, number of changes between dark and
\* light in them, and the small thresholds tried beside the default one.
MaxSamples == 27

MaxFlips == 2

MaxNeeded == 3

\* Renderer runs: the strip lengths are MaxPixels - 1 and MaxPixels, the
\* countdown lengths 0 .. MaxLength, and MaxCalls calls are made.
MaxPixels == 4

MaxLength == 4

MaxCalls == 1

\* Renderer runs on colours outside 0 .. 255: MaxFrames ticks, each a render
\* or a blanking, are made.
MaxFrames == 3

\* Block layout runs: the span of a day index is computed for strips of 1 to
\* MaxStrip pixels, any countdown length up to the strip length and the day
\* indices from MaxLength below 0 up to the countdown length.
MaxStrip == 7

\* Fetcher runs: the fetchers are called with retries from 0 to MaxRetries
\* (3 is the default of every one of them).
MaxRetries == 3

\* Runs from power-on: the main loop is followed for BootTicks iterations
\* after startup().
BootTicks == 3

\* ColorUtils runs: clamp is tried on every integer from MaxOvershoot below
\* the lowest channel value to MaxOvershoot above the highest.
MaxOvershoot == 50

\* Long runs of the main loop: the loop is followed for SoakTicks iterations
\* from the state WarmupTicks uneventful iterations leave.
WarmupTicks == 100

SoakTicks == 28

\* CountdownState runs: MaxAdvances pairs of update_animation_phase and
\* update_flash_phase are made, with any of the sampled times between the
\* clock readings of the first MaxIrregular pairs and TickPeriodMs after them.
MaxAdvances == 126

MaxIrregular == 2

\* Duration of one main-loop iteration in ms: the clock is explored on a
\* regular schedule, iteration k reads time.ticks_ms() = k * TickPeriodMs.
TickPeriodMs == 1000

\* ------------------------------------------------------------------------
\* DateUtils
\* ------------------------------------------------------------------------

\* Days since 1970-01-01 of a proleptic Gregorian date (what time.mktime
\* computes for the date part of its tuple, divided by 86400).
DaysFromCivil(ymd) ==
    LET y   == IF ymd[2] <= 2 THEN ymd[1] - 1 ELSE ymd[1]
        era == y \div 400
        yoe == y - era * 400
        mp  == IF ymd[2] > 2 THEN ymd[2] - 3 ELSE ymd[2] + 9
        doy == (153 * mp + 2) \div 5 + ymd[3] - 1
        doe == yoe * 365 + yoe \div 4 - yoe \div 100 + doy
    IN era * 146097 + doe - 719468

\* time.mktime of an 8-tuple (year, month, day, hour, minute, second, _, _).
mktime(t) == DaysFromCivil(<<t[1], t[2], t[3]>>) * 86400 + t[4] * 3600 + t[5] * 60 + t[6]

\* DateUtils.string_to_date_tuple; defined only for a string that parses.
string_to_date_tuple(date_string) == date_string.ymd

\* DateUtils.string_to_datetime_tuple; defined only for a string that parses.
string_to_datetime_tuple(date_string) ==
    <<date_string.ymd[1], date_string.ymd[2], date_string.ymd[3], 0, 0, 0, 0, 0>>

\* days_between that reports the distance between the dates, without sign.
days_between_Unsigned(date1_tuple, date2_string) ==
    LET date1_seconds == mktime(date1_tuple \o <<0, 0, 0, 0, 0>>)
        date2_seconds == mktime(string_to_datetime_tuple(date2_string))
        d             == (date2_seconds - date1_seconds) \div 86400
    IN IF d < 0 THEN -d ELSE d

\* DateUtils.days_between(date1_tuple, date2_string).
days_between(date1_tuple, date2_string) ==
    LET date1_seconds == mktime(date1_tuple \o <<0, 0, 0, 0, 0>>)
        date2_seconds == mktime(string_to_datetime_tuple(date2_string))
    IN (date2_seconds - date1_seconds) \div 86400

\* Whether DateUtils.is_within_time_range raises: map(int, split(':')) on a
\* string that does not parse.
TimeRangeRaises(start_time_str, end_time_str) ==
    ~start_time_str.ok \/ ~end_time_str.ok

\* is_within_time_range without the branch for a range that spans midnight.
is_within_time_range_NoWrap(start_time_str, end_time_str, current_hm) ==
    LET start_minutes   == start_time_str.hm[1] * 60 + start_time_str.hm[2]
        end_minutes     == end_time_str.hm[1] * 60 + end_time_str.hm[2]
        current_minutes == current_hm[1] * 60 + current_hm[2]
    IN start_minutes <= current_minutes /\ current_minutes <= end_minutes

\* DateUtils.is_within_time_range; current_hm is <<hour, minute>> of the
\* adjusted time tuple.
is_within_time_range(start_time_str, end_time_str, current_hm) ==
    LET start_minutes   == start_time_str.hm[1] * 60 + start_time_str.hm[2]
        end_minutes     == end_time_str.hm[1] * 60 + end_time_str.hm[2]
        current_minutes == current_hm[1] * 60 + current_hm[2]
    IN IF start_minutes <= end_minutes
       THEN start_minutes <= current_minutes /\ current_minutes <= end_minutes
       ELSE current_minutes >= start_minutes \/ current_minutes <= end_minutes

\* DateUtils.adjust_time_with_offset, on the time of day: the <<hour, minute>>
\* of localtime(mktime(t) + hours_offset * 3600).
adjust_time_with_offset(hm, hours_offset) ==
    LET m == (hm[1] * 60 + hm[2] + hours_offset * 60) % 1440
    IN <<m \div 60, m % 60>>

\* ------------------------------------------------------------------------
\* Inputs of the environment (small sample sets)
\* ------------------------------------------------------------------------

DateStr(y, m, d) == [ok |-> TRUE, ymd |-> <<y, m, d>>]

MalformedDateStr == [ok |-> FALSE, ymd |-> <<0, 0, 0>>]

TimeStr(h, m) == [ok |-> TRUE, hm |-> <<h, m>>]

MalformedTimeStr == [ok |-> FALSE, hm |-> <<0, 0>>]

\* EventSettings as built by SettingsAPI.fetch_settings; flash_speed (a
\* number of seconds, whole or not) is kept in units of 1/10000 s.
MkSettings(important, start, st, en, flash) ==
    [important_date |-> important, start_from_day |-> start,
     start_time |-> st, end_time |-> en, flash_speed |-> flash]

\* The configurations the settings source may return: a countdown over a
\* leap day with a daytime window, one whose start date equals its target
\* date, one whose target date is before its start date (with a window that
\* spans midnight), one whose target date does not parse, and one whose
\* window start does not parse.
SettingsSamples ==
    { MkSettings(DateStr(2024, 3, 1), DateStr(2024, 2, 27),
                 TimeStr(8, 0), TimeStr(20, 0), 20000),
      MkSettings(DateStr(2024, 3, 1), DateStr(2024, 3, 1),
                 TimeStr(8, 0), TimeStr(20, 0), 20000),
      MkSettings(DateStr(2024, 3, 1), DateStr(2024, 3, 3),
                 TimeStr(22, 0), TimeStr(6, 0), 10000),
      MkSettings(MalformedDateStr, DateStr(2024, 2, 27),
                 TimeStr(8, 0), TimeStr(20, 0), 20000),
      MkSettings(DateStr(2024, 3, 1), DateStr(2024, 2, 27),
                 MalformedTimeStr, TimeStr(20, 0), 20000) }

\* The dates the time source may return.
DateSamples == { <<2024, 2, 28>>, <<2024, 3, 2>> }

\* Raw (unadjusted) times of day read from time.localtime().
RawTimeSamples == { <<17, 0>>, <<4, 30>> }

\* Timezone offsets (hours) obtained at startup.
OffsetSamples == { -5 }

\* Outcomes of random_base_color, in hundredths (randrange(1, 99) / 100).
BaseColorSamples == { <<1, 50, 98>> }

\* ADC samples: a reading, or a failed read (read_u16 raises).
ReadingSamples ==
    { [ok |-> TRUE, value |-> LDR_THRESHOLD],
      [ok |-> TRUE, value |-> LDR_THRESHOLD + 1],
      [ok |-> FALSE, value |-> 0] }

\* ------------------------------------------------------------------------
\* State
\* ------------------------------------------------------------------------

VARIABLES
    pc,                       \* "loop": at the top of run()'s while loop;
                              \* "sleep": in the except branch of run()
    consecutive_dark_count,   \* LightSensor
    consecutive_light_count,  \* LightSensor
    consecutive_needed,       \* LightSensor
    objects,                  \* heap of CountdownState objects: the object
                              \* allocated in iteration k has id k, startup's 0
    countdown_state,          \* CountdownApplication.countdown_state (object id)
    animation_engine,         \* CountdownApplication.animation_engine
    timezone_offset,          \* CountdownApplication.timezone_offset
    strip,                    \* what the LED strip shows
    tick,                     \* trace of the last main-loop iteration
    ticks,                    \* number of iterations started so far
    horizon,                  \* number of iterations explored in this run
    samples,                  \* the ADC readings fed to a debouncer run
    np,                       \* LEDStripController.np: the pixel buffer
    num_pixels,               \* LEDStripController.num_pixels
    led,                      \* trace of the last call on the LED classes
    util,                     \* trace of the last call on a utility class
    ticks_ms,                 \* time.ticks_ms() as last read
    files,                    \* the files on the device's flash, by name
    startup                   \* trace of CountdownApplication.startup()

vars == <<pc, consecutive_dark_count, consecutive_light_count, consecutive_needed,
          objects, countdown_state, animation_engine, timezone_offset, strip, tick,
          ticks, horizon, samples, np, num_pixels, led, util, ticks_ms,
          files, startup>>


\* The trace of DateUtils when nothing has been called.
NoUtilCall == [fn |-> "none", args |-> <<>>, result |-> 0]

\* The files the update deals with (main.py:58-59), and a file as what the
\* update looks at: its length and whether it holds the two strings looked
\* for.
UPDATE_FILE_NEW == "main_new.py"

UPDATE_FILE_BACKUP == "main_backup_auto.py"

FileNames == { "main.py", UPDATE_FILE_NEW, UPDATE_FILE_BACKUP }

Absent ==
    [kind |-> "absent", size |-> 0, import_network |-> FALSE, def_main |-> FALSE]

\* The main.py that is running.
RunningCode ==
    [kind |-> "running", size |-> 40000, import_network |-> TRUE,
     def_main |-> TRUE]

DeviceFiles ==
    [name \in FileNames |-> IF name = "main.py" THEN RunningCode ELSE Absent]

\* The trace of startup() when it has not been called: what it returned, and
\* which of its steps obtained what they were after.
NoStartup ==
    [returned        |-> "none",   \* "True", "False", "reset" or "raised"
     wifi            |-> FALSE,
     timezone        |-> FALSE,
     timezone_offset |-> FALSE,
     local_date      |-> FALSE,
     ntp             |-> FALSE,
     settings        |-> FALSE,
     failed          |-> "none"]   \* the step _error_state was called for

\* The trace of a startup() in which every step succeeded.
StartupCompleted ==
    [returned        |-> "True",
     wifi            |-> TRUE,
     timezone        |-> TRUE,
     timezone_offset |-> TRUE,
     local_date      |-> TRUE,
     ntp             |-> TRUE,
     settings        |-> TRUE,
     failed          |-> "none"]

\* ------------------------------------------------------------------------
\* LightSensor
\* ------------------------------------------------------------------------

\* LightSensor.update with counters that stop at the threshold.
LightSensorUpdate_Saturating(dark_count, light_count, needed, reading) ==
    LET is_dark == reading > LDR_THRESHOLD
        dark    == IF ~is_dark THEN 0
                   ELSE IF dark_count >= needed THEN dark_count ELSE dark_count + 1
        light   == IF is_dark THEN 0
                   ELSE IF light_count >= needed THEN light_count ELSE light_count + 1
    IN [consecutive_dark_count  |-> dark,
        consecutive_light_count |-> light,
        is_dark          |-> is_dark,
        consistent_dark  |-> dark >= needed,
        consistent_light |-> light >= needed]

\* LightSensor.update without the reset of the opposite counter.
LightSensorUpdate_NoReset(dark_count, light_count, needed, reading) ==
    LET is_dark == reading > LDR_THRESHOLD
        dark    == IF is_dark THEN dark_count + 1 ELSE dark_count
        light   == IF is_dark THEN light_count ELSE light_count + 1
    IN [consecutive_dark_count  |-> dark,
        consecutive_light_count |-> light,
        is_dark          |-> is_dark,
        consistent_dark  |-> dark >= needed,
        consistent_light |-> light >= needed]

\* LightSensor.update that takes a counter one short of the threshold for
\* consistent.
LightSensorUpdate_OneShort(dark_count, light_count, needed, reading) ==
    LET is_dark == reading > LDR_THRESHOLD
        dark    == IF is_dark THEN dark_count + 1 ELSE 0
        light   == IF is_dark THEN 0 ELSE light_count + 1
    IN [consecutive_dark_count  |-> dark,
        consecutive_light_count |-> light,
        is_dark          |-> is_dark,
        consistent_dark  |-> dark >= needed - 1,
        consistent_light |-> light >= needed - 1]

\* LightSensor.update whose flags are edge-triggered: true only for the
\* sample with which the counter reaches the threshold.
LightSensorUpdate_EdgeTriggered(dark_count, light_count, needed, reading) ==
    LET is_dark == reading > LDR_THRESHOLD
        dark    == IF is_dark THEN dark_count + 1 ELSE 0
        light   == IF is_dark THEN 0 ELSE light_count + 1
    IN [consecutive_dark_count  |-> dark,
        consecutive_light_count |-> light,
        is_dark          |-> is_dark,
        consistent_dark  |-> dark = needed,
        consistent_light |-> light = needed]

\* LightSensor.update with the threshold compared strictly.
LightSensorUpdate_Strict(dark_count, light_count, needed, reading) ==
    LET is_dark == reading > LDR_THRESHOLD
        dark    == IF is_dark THEN dark_count + 1 ELSE 0
        light   == IF is_dark THEN 0 ELSE light_count + 1
    IN [consecutive_dark_count  |-> dark,
        consecutive_light_count |-> light,
        is_dark          |-> is_dark,
        consistent_dark  |-> dark > needed,
        consistent_light |-> light > needed]

\* LightSensor.update, given the ADC reading: the new counters and the
\* returned (is_dark, consistent_dark, consistent_light).
LightSensorUpdate(dark_count, light_count, needed, reading) ==
    LET is_dark == reading > LDR_THRESHOLD
        dark    == IF is_dark THEN dark_count + 1 ELSE 0
        light   == IF is_dark THEN 0 ELSE light_count + 1
    IN [consecutive_dark_count  |-> dark,
        consecutive_light_count |-> light,
        is_dark          |-> is_dark,
        consistent_dark  |-> dark >= needed,
        consistent_light |-> light >= needed]

\* ------------------------------------------------------------------------
\* CountdownState
\* ------------------------------------------------------------------------

\* int(num / den) for den > 0: truncation toward zero.
IntTrunc(num, den) ==
    IF num >= 0 THEN num \div den ELSE -((-num) \div den)

\* Whether CountdownState.__init__ raises: a date string that does not parse.
CountdownStateRaises(settings) ==
    ~settings.important_date.ok \/ ~settings.start_from_day.ok

_calculate_days_remaining(current_date, settings) ==
    days_between(current_date, settings.important_date)

_calculate_countdown_length(settings) ==
    LET start_date == string_to_date_tuple(settings.start_from_day)
        d == days_between(start_date, settings.important_date)
    IN IF d < 0 THEN -d ELSE d

\* CountdownState.__init__ that counts days_remaining from the start date of
\* the countdown instead of the current date.
NewCountdownState_FromStartDate(current_date, settings, base_color, now_ms) ==
    [current_date     |-> current_date,
     settings         |-> settings,
     days_remaining   |-> days_between(string_to_date_tuple(settings.start_from_day),
                                       settings.important_date),
     countdown_length |-> _calculate_countdown_length(settings),
     base_color       |-> base_color,
     animation_phase  |-> 0,
     is_flashing      |-> TRUE,
     swap_phase       |-> FALSE,
     last_swap_ms     |-> now_ms]

\* CountdownState.__init__(current_date, settings), with the drawn base colour
\* and the value of time.ticks_ms().
NewCountdownState(current_date, settings, base_color, now_ms) ==
    [current_date     |-> current_date,
     settings         |-> settings,
     days_remaining   |-> _calculate_days_remaining(current_date, settings),
     countdown_length |-> _calculate_countdown_length(settings),
     base_color       |-> base_color,
     animation_phase  |-> 0,
     is_flashing      |-> TRUE,
     swap_phase       |-> FALSE,
     last_swap_ms     |-> now_ms]

\* update_animation_phase without the modulo.
update_animation_phase_NoWrap(st) ==
    [st EXCEPT !.animation_phase = st.animation_phase + ANIMATION_SPEED]

\* update_animation_phase that starts again from 0 when the phase passes
\* 2 * pi.
update_animation_phase_RestartsAtZero(st) ==
    [st EXCEPT !.animation_phase =
        IF st.animation_phase + ANIMATION_SPEED >= TwoPi THEN 0
        ELSE st.animation_phase + ANIMATION_SPEED]

\* CountdownState.update_animation_phase.
update_animation_phase(st) ==
    [st EXCEPT !.animation_phase = (st.animation_phase + ANIMATION_SPEED) % TwoPi]

\* time.ticks_diff(a, b).
ticks_diff(a, b) ==
    ((a - b + TicksPeriod \div 2) % TicksPeriod) - TicksPeriod \div 2

\* update_flash_phase that also changes the base colour when it toggles.
update_flash_phase_NewBaseOnToggle(st, now) ==
    LET configured  == IntTrunc(st.settings.flash_speed, 10)
        interval_ms == IF configured <= 0 THEN DefaultFlashIntervalMs ELSE configured
    IN IF ticks_diff(now, st.last_swap_ms) >= interval_ms
       THEN [st EXCEPT !.swap_phase = ~st.swap_phase, !.last_swap_ms = now,
                       !.base_color = <<@[3], @[1], @[2]>>]
       ELSE st

\* update_flash_phase that records the time of every call, toggle or not.
update_flash_phase_RecordsEveryCall(st, now) ==
    LET configured  == IntTrunc(st.settings.flash_speed, 10)
        interval_ms == IF configured <= 0 THEN DefaultFlashIntervalMs ELSE configured
    IN IF ticks_diff(now, st.last_swap_ms) >= interval_ms
       THEN [st EXCEPT !.swap_phase = ~st.swap_phase, !.last_swap_ms = now]
       ELSE [st EXCEPT !.last_swap_ms = now]

\* CountdownState.update_flash_phase, with now = time.ticks_ms():
\* interval_ms = int(flash_speed * 1000), flash_speed in units of 1/10000 s.
update_flash_phase(st, now) ==
    LET configured  == IntTrunc(st.settings.flash_speed, 10)
        interval_ms == IF configured <= 0 THEN DefaultFlashIntervalMs ELSE configured
    IN IF ticks_diff(now, st.last_swap_ms) >= interval_ms
       THEN [st EXCEPT !.swap_phase = ~st.swap_phase, !.last_swap_ms = now]
       ELSE st

\* ------------------------------------------------------------------------
\* AnimationEngine (the mode selection and what can make a render fail)
\* ------------------------------------------------------------------------

\* AnimationEngine.render: which of the two renderers runs.
RenderMode(st) ==
    IF st.days_remaining <= st.countdown_length THEN "countdown" ELSE "breathing"

\* _render_countdown divides num_pixels by countdown_length.
RenderRaises(st) ==
    RenderMode(st) = "countdown" /\ st.countdown_length = 0

\* ------------------------------------------------------------------------
\* ColorUtils
\* ------------------------------------------------------------------------

COLOR_OFF == <<0, 0, 0>>

ColorStr(r, g, b) == [ok |-> TRUE, rgb |-> <<r, g, b>>]

MalformedColorStr == [ok |-> FALSE, rgb |-> <<0, 0, 0>>]

\* ColorUtils.string_to_rgb; defined only for a string that parses (on any
\* other string map(int, ...) raises).
string_to_rgb(rgb_string) == rgb_string.rgb

\* clamp without the lower bound: min(int(value), max_val).
clamp_NoFloor(value, min_val, max_val) ==
    IF value < max_val THEN value ELSE max_val

\* ColorUtils.clamp(value, min_val, max_val) on an integer value.
clamp(value, min_val, max_val) ==
    LET m == IF value < max_val THEN value ELSE max_val
    IN IF m > min_val THEN m ELSE min_val

\* ColorUtils.lighten(color, factor), factor in units of 1/10000.
lighten(color, factor) ==
    [c \in 1 .. 3 |-> clamp(IntTrunc(color[c] * factor, 10000), 0, 255)]

\* math.sin in units of 1/10000, of an angle in units of 1/10000 rad
\* (Bhaskara's rational approximation, exact in sign).
Sin(phase) ==
    LET x    == phase % TwoPi
        half == TwoPi \div 2
        y    == IF x <= half THEN x ELSE x - half
        a    == (y * (half - y)) \div 10000
        v    == ((16 * a * 1000) \div (493480 - 4 * a)) * 10
    IN IF x <= half THEN v ELSE -v

\* ------------------------------------------------------------------------
\* LEDStripController: the pixel buffer is a sequence, pixel i at place i + 1
\* ------------------------------------------------------------------------

\* set_pixel that hands any index to the buffer, where a negative index
\* counts from the end as Python's do.
set_pixel_Unguarded(buf, index, color) ==
    IF Len(buf) = 0 THEN buf
    ELSE [buf EXCEPT ![(index % Len(buf)) + 1] = color]

\* set_pixel on a buffer that keeps each channel as the integer it is given,
\* whatever its size.
set_pixel_StoresAsGiven(buf, index, color) ==
    IF 0 <= index /\ index < Len(buf)
    THEN [buf EXCEPT ![index + 1] = color]
    ELSE buf

\* LEDStripController.set_pixel: the buffer after the call. self.np is a
\* NeoPixel, whose buffer is a bytearray: the item assignment stores the low
\* eight bits of each channel.
set_pixel(buf, index, color) ==
    IF 0 <= index /\ index < Len(buf)
    THEN [buf EXCEPT ![index + 1] = [c \in 1 .. 3 |-> color[c] % 256]]
    ELSE buf

\* LEDStripController.get_pixel.
get_pixel(buf, index) ==
    IF 0 <= index /\ index < Len(buf) THEN buf[index + 1] ELSE COLOR_OFF

\* neopixel.NeoPixel(pin, num_pixels): all pixels off.
NewPixels(n) == [i \in 1 .. n |-> COLOR_OFF]

\* LEDStripController.fill(color): the buffer after the call.
fill(buf, color) == [i \in 1 .. Len(buf) |-> color]

\* ------------------------------------------------------------------------
\* AnimationEngine, pixel by pixel
\* ------------------------------------------------------------------------

\* range(a, b, -1) as a sequence.
RangeDown(a, b) ==
    IF a > b THEN [i \in 1 .. (a - b) |-> a + 1 - i] ELSE <<>>

\* The day range whose reverse direction runs from days_remaining down to 1.
day_range_CountsFromOne(st) ==
    IF ~st.settings.is_reverse
    THEN RangeDown(st.countdown_length, st.days_remaining - 1)
    ELSE RangeDown(st.days_remaining, 0)

\* _render_countdown, lines 757-761: the day indices drawn, in order.
day_range(st) ==
    IF ~st.settings.is_reverse
    THEN RangeDown(st.countdown_length, st.days_remaining - 1)
    ELSE RangeDown(st.days_remaining - 1, -1)

\* _render_countdown, line 764 (countdown_length is not 0).
block_size(n, countdown_length) == n \div countdown_length

\* The block layout with every block of the same width, the edge block
\* included.
BlockSpan_UniformEdge(n, countdown_length, from_pi, day_index) ==
    LET size == block_size(n, countdown_length)
    IN IF ~from_pi
       THEN LET block_max == n - (countdown_length - day_index) * size
            IN <<block_max - size, block_max>>
       ELSE LET block_min == (countdown_length - day_index) * size
            IN <<block_min, block_min + size>>

\* The block layout that gives the day indices below 0 no pixels.
BlockSpan_NoNegativeDays(n, countdown_length, from_pi, day_index) ==
    LET size == block_size(n, countdown_length)
    IN IF day_index < 0 THEN <<0, 0>>
       ELSE IF ~from_pi
       THEN LET block_max == n - (countdown_length - day_index) * size
            IN <<IF day_index > 1 THEN block_max - size ELSE 0, block_max>>
       ELSE LET block_min == (countdown_length - day_index) * size
            IN <<block_min, IF day_index > 1 THEN block_min + size ELSE n>>

\* _render_countdown, lines 768-781: <<block_min, block_max>> of a day index.
BlockSpan(n, countdown_length, from_pi, day_index) ==
    LET size == block_size(n, countdown_length)
    IN IF ~from_pi
       THEN LET block_max == n - (countdown_length - day_index) * size
            IN <<IF day_index > 1 THEN block_max - size ELSE 0, block_max>>
       ELSE LET block_min == (countdown_length - day_index) * size
            IN <<block_min, IF day_index > 1 THEN block_min + size ELSE n>>

\* The pixel indices range(block_min, block_max) runs over.
SpanPixels(span) == { p \in span[1] .. (span[2] - 1) : TRUE }

\* _render_countdown, lines 749-755: the flashing group and the lighten
\* factor (in units of 1/10000).
flashing_group(phase) == IF Sin(phase) >= 0 THEN 0 ELSE 1

lighten_factor(phase) ==
    LET raw   == (Sin(phase) + 10000) \div 2
        pulse == (((raw * raw) \div 10000) * (30000 - 2 * raw)) \div 10000
    IN 10000 + (3500 * pulse) \div 10000

\* The k-th value of random.choice([-1, 1]) in one render, for each of the
\* outcomes of the generator that are explored.
RandomStreams == { "minus", "plus", "alternate" }

random_choice(stream, k) ==
    IF stream = "minus" THEN -1
    ELSE IF stream = "plus" THEN 1
    ELSE IF k % 2 = 0 THEN 1 ELSE -1

\* A render in progress: the buffer, the call that raised (if any), the
\* number of random draws made, and what the two passes handed to set_pixel.
StartRender(buf) ==
    [np |-> buf, raised |-> "none", draws |-> 0, fills |-> {}, marks |-> {}]

\* The body of the pixel loop with the swap phase left out of the choice
\* between primary and secondary.
FillPixel_IgnoresSwap(r, st, stream, day_index, pixel) ==
    LET settings   == st.settings
        parity     == (day_index % 2 = 0)
        is_primary == parity
        lit        == st.is_flashing
                        /\ \/ (flashing_group(st.animation_phase) = 0 /\ is_primary)
                           \/ (flashing_group(st.animation_phase) = 1 /\ ~is_primary)
        factor     == lighten_factor(st.animation_phase)
    IN IF r.raised # "none" THEN r
       ELSE IF settings.use_custom_colors
       THEN LET str == IF is_primary THEN settings.primary_color
                       ELSE settings.secondary_color
            IN IF ~str.ok THEN [r EXCEPT !.raised = "string_to_rgb"]
               ELSE LET color == IF lit THEN lighten(string_to_rgb(str), factor)
                                 ELSE string_to_rgb(str)
                    IN [r EXCEPT !.np = set_pixel(r.np, pixel, color),
                                 !.fills = @ \cup {pixel}]
       ELSE LET variation_1 == ((st.countdown_length + 1) - day_index)
                                   * random_choice(stream, r.draws)
                variation_2 == ((st.countdown_length + 1) - day_index)
                                   * random_choice(stream, r.draws + 1)
                old   == get_pixel(r.np, pixel)
                drift == <<clamp(old[1] + variation_1, 0, 255),
                           clamp(old[2] - variation_1, 0, 255),
                           clamp(old[3] + variation_2, 0, 255)>>
                color == IF lit THEN lighten(drift, factor) ELSE drift
            IN [r EXCEPT !.np = set_pixel(r.np, pixel, color),
                         !.fills = @ \cup {pixel},
                         !.draws = @ + 2]

\* The body of the pixel loop with every block lightened, whatever its group.
FillPixel_LightensBoth(r, st, stream, day_index, pixel) ==
    LET settings   == st.settings
        parity     == (day_index % 2 = 0)
        is_primary == IF st.swap_phase THEN ~parity ELSE parity
        lit        == st.is_flashing
        factor     == lighten_factor(st.animation_phase)
    IN IF r.raised # "none" THEN r
       ELSE IF settings.use_custom_colors
       THEN LET str == IF is_primary THEN settings.primary_color
                       ELSE settings.secondary_color
            IN IF ~str.ok THEN [r EXCEPT !.raised = "string_to_rgb"]
               ELSE LET color == IF lit THEN lighten(string_to_rgb(str), factor)
                                 ELSE string_to_rgb(str)
                    IN [r EXCEPT !.np = set_pixel(r.np, pixel, color),
                                 !.fills = @ \cup {pixel}]
       ELSE LET variation_1 == ((st.countdown_length + 1) - day_index)
                                   * random_choice(stream, r.draws)
                variation_2 == ((st.countdown_length + 1) - day_index)
                                   * random_choice(stream, r.draws + 1)
                old   == get_pixel(r.np, pixel)
                drift == <<clamp(old[1] + variation_1, 0, 255),
                           clamp(old[2] - variation_1, 0, 255),
                           clamp(old[3] + variation_2, 0, 255)>>
                color == IF lit THEN lighten(drift, factor) ELSE drift
            IN [r EXCEPT !.np = set_pixel(r.np, pixel, color),
                         !.fills = @ \cup {pixel},
                         !.draws = @ + 2]

\* _render_countdown, lines 785-816: the body of the pixel loop.
FillPixel(r, st, stream, day_index, pixel) ==
    LET settings   == st.settings
        parity     == (day_index % 2 = 0)
        is_primary == IF st.swap_phase THEN ~parity ELSE parity
        lit        == st.is_flashing
                        /\ \/ (flashing_group(st.animation_phase) = 0 /\ is_primary)
                           \/ (flashing_group(st.animation_phase) = 1 /\ ~is_primary)
        factor     == lighten_factor(st.animation_phase)
    IN IF r.raised # "none" THEN r
       ELSE IF settings.use_custom_colors
       THEN LET str == IF is_primary THEN settings.primary_color
                       ELSE settings.secondary_color
            IN IF ~str.ok THEN [r EXCEPT !.raised = "string_to_rgb"]
               ELSE LET color == IF lit THEN lighten(string_to_rgb(str), factor)
                                 ELSE string_to_rgb(str)
                    IN [r EXCEPT !.np = set_pixel(r.np, pixel, color),
                                 !.fills = @ \cup {pixel}]
       ELSE LET variation_1 == ((st.countdown_length + 1) - day_index)
                                   * random_choice(stream, r.draws)
                variation_2 == ((st.countdown_length + 1) - day_index)
                                   * random_choice(stream, r.draws + 1)
                old   == get_pixel(r.np, pixel)
                drift == <<clamp(old[1] + variation_1, 0, 255),
                           clamp(old[2] - variation_1, 0, 255),
                           clamp(old[3] + variation_2, 0, 255)>>
                color == IF lit THEN lighten(drift, factor) ELSE drift
            IN [r EXCEPT !.np = set_pixel(r.np, pixel, color),
                         !.fills = @ \cup {pixel},
                         !.draws = @ + 2]

\* _render_countdown, line 784: for pixel in range(pixel, block_max).
RECURSIVE FillBlock(_, _, _, _, _, _)
FillBlock(r, st, stream, day_index, pixel, block_max) ==
    IF pixel >= block_max THEN r
    ELSE FillBlock(FillPixel(r, st, stream, day_index, pixel),
                   st, stream, day_index, pixel + 1, block_max)

\* The marker loop body that takes a block for inactive only when it starts
\* at or after the end of the day block just drawn.
MarkBlock_SkipsLowerBlocks(r, st, block, span) ==
    LET n           == Len(r.np)
        size        == block_size(n, st.countdown_length)
        block_start == IF ~st.settings.from_pi THEN n - (block + 1) * size
                       ELSE block * size
    IN IF r.raised # "none" THEN r
       ELSE IF block_start >= span[2]
       THEN IF ~st.settings.marker_color.ok
            THEN [r EXCEPT !.raised = "string_to_rgb"]
            ELSE [r EXCEPT !.np = set_pixel(r.np, block_start,
                                            string_to_rgb(st.settings.marker_color)),
                           !.marks = @ \cup {block_start}]
       ELSE r

\* _render_countdown, lines 821-829: the body of the marker loop, for the
\* day block <<block_min, block_max>> just drawn.
MarkBlock(r, st, block, span) ==
    LET n           == Len(r.np)
        size        == block_size(n, st.countdown_length)
        block_start == IF ~st.settings.from_pi THEN n - (block + 1) * size
                       ELSE block * size
    IN IF r.raised # "none" THEN r
       ELSE IF block_start < span[1] \/ block_start >= span[2]
       THEN IF ~st.settings.marker_color.ok
            THEN [r EXCEPT !.raised = "string_to_rgb"]
            ELSE [r EXCEPT !.np = set_pixel(r.np, block_start,
                                            string_to_rgb(st.settings.marker_color)),
                           !.marks = @ \cup {block_start}]
       ELSE r

\* _render_countdown, line 820: for block in range(block, countdown_length).
RECURSIVE MarkBlocks(_, _, _, _)
MarkBlocks(r, st, block, span) ==
    IF block >= st.countdown_length THEN r
    ELSE MarkBlocks(MarkBlock(r, st, block, span), st, block + 1, span)

\* _render_countdown, lines 766-829: the body of the day loop.
DrawDay(r, st, stream, day_index) ==
    LET span   == BlockSpan(Len(r.np), st.countdown_length, st.settings.from_pi,
                            day_index)
        filled == FillBlock(r, st, stream, day_index, span[1], span[2])
    IN IF st.settings.with_marker THEN MarkBlocks(filled, st, 0, span)
       ELSE filled

\* _render_countdown, line 766: for day_index in days[k ..].
RECURSIVE DrawDays(_, _, _, _, _)
DrawDays(r, st, stream, days, k) ==
    IF k > Len(days) \/ r.raised # "none" THEN r
    ELSE DrawDays(DrawDay(r, st, stream, days[k]), st, stream, days, k + 1)

\* AnimationEngine._render_countdown.
_render_countdown(buf, st, stream) ==
    IF st.countdown_length = 0
    THEN [StartRender(buf) EXCEPT !.raised = "ZeroDivisionError"]
    ELSE DrawDays(StartRender(buf), st, stream, day_range(st), 1)

\* math.exp(-q) in units of 1/10000, q >= 0 in units of 1/100 (the
\* reciprocal of the series of exp(q) up to the cubic term).
ExpNeg(q) ==
    100000000 \div (10000 + 100 * q + (q * q) \div 2 + (q * q * q) \div 600)

\* _render_breathing, lines 841-843: the brightness of loop index i, in
\* units of 1/100.
brightness(phase, n, i) ==
    LET amplitude == 32 * (100 + (Sin(phase + TwoPi \div 2) + 10000) \div 25)
        width     == 100 + (Sin(phase) + 10000) \div 5
        distance  == n * 50 - i * 100
        q         == (((distance * distance) \div 100) * 100)
                         \div ((width * width) \div 100)
    IN (amplitude * ExpNeg(q)) \div 10000

\* _render_breathing, line 837: for i in range(i, num_pixels).
RECURSIVE BreatheFrom(_, _, _)
BreatheFrom(r, st, i) ==
    LET n           == Len(r.np)
        pixel_index == IF st.settings.from_pi THEN n - 1 - i ELSE i
        b           == brightness(st.animation_phase, n, i)
        color       == [c \in 1 .. 3 |->
                           clamp((st.base_color[c] * b) \div 10000, 0, 255)]
    IN IF i >= n THEN r
       ELSE BreatheFrom([r EXCEPT !.np = set_pixel(r.np, pixel_index, color),
                                  !.fills = @ \cup {pixel_index}],
                        st, i + 1)

\* AnimationEngine._render_breathing.
_render_breathing(buf, st) == BreatheFrom(StartRender(buf), st, 0)

\* AnimationEngine.render: the selected renderer, and led.write() unless it
\* raised.
render(buf, st, stream) ==
    LET r == IF st.days_remaining <= st.countdown_length
             THEN _render_countdown(buf, st, stream)
             ELSE _render_breathing(buf, st)
    IN [np      |-> r.np,
        raised  |-> r.raised,
        mode    |-> IF st.days_remaining <= st.countdown_length THEN "countdown"
                    ELSE "breathing",
        written |-> r.raised = "none",
        fills   |-> r.fills,
        marks   |-> r.marks]

\* The trace of the LED classes when nothing has been called.
NoCall ==
    [op      |-> "none",     \* "render", "clear", "set_pixel" or "get_pixel"
     raised  |-> "none",     \* the call whose exception left the operation
     mode    |-> "none",     \* the renderer that ran
     written |-> FALSE,      \* np.write() was called
     fills   |-> {},         \* indices the fill loop handed to set_pixel
     marks   |-> {},         \* indices the marker pass handed to set_pixel
     index   |-> 0,          \* the index of a set_pixel or get_pixel call
     result  |-> COLOR_OFF]  \* the value get_pixel returned

\* ------------------------------------------------------------------------
\* UpdateManager: a string is the sequence of its code points
\* ------------------------------------------------------------------------

\* str(n) of an integer n >= 0 ('0' is code point 48).
RECURSIVE Digits(_)
Digits(n) ==
    IF n < 10 THEN <<48 + n>> ELSE Digits(n \div 10) \o <<48 + (n % 10)>>

\* The version string of a release numbered parts[1].parts[2]. ... ('.' is
\* code point 46), as VERSION holds it and _get_remote_version extracts it.
RECURSIVE VersionStr(_)
VersionStr(parts) ==
    IF Len(parts) = 1 THEN Digits(parts[1])
    ELSE Digits(parts[1]) \o <<46>> \o VersionStr(Tail(parts))

\* a <= b on Python strings: the order of the first code points that differ,
\* a proper prefix being the smaller.
RECURSIVE StrLessEq(_, _)
StrLessEq(a, b) ==
    IF a = <<>> THEN TRUE
    ELSE IF b = <<>> THEN FALSE
    ELSE IF a[1] # b[1] THEN a[1] < b[1]
    ELSE StrLessEq(Tail(a), Tail(b))

\* A file a write to which was not completed.
Partial ==
    [kind |-> "partial", size |-> 0, import_network |-> FALSE, def_main |-> FALSE]

\* _download_and_apply, lines 454-461: the except branch removes the new
\* file if it can.
CleanUp(fs, io) ==
    IF io.cleanup = "ok" THEN [fs EXCEPT ![UPDATE_FILE_NEW] = Absent] ELSE fs

\* UpdateManager._download_and_apply on the files fs, io giving the outcome
\* of each step that can fail: "False" is returned, or reset() reboots the
\* device.
_download_and_apply(fs, io) ==
    IF io.get = "raises" THEN [files |-> CleanUp(fs, io), returned |-> "False"]
    ELSE IF io.get = "status" THEN [files |-> fs, returned |-> "False"]
    ELSE IF io.content.size < 1000 THEN [files |-> fs, returned |-> "False"]
    ELSE IF ~io.content.import_network \/ ~io.content.def_main
    THEN [files |-> fs, returned |-> "False"]
    ELSE IF io.save = "open_raises"
    THEN [files |-> CleanUp(fs, io), returned |-> "False"]
    ELSE IF io.save = "write_raises"
    THEN [files    |-> CleanUp([fs EXCEPT ![UPDATE_FILE_NEW] = Partial], io),
          returned |-> "False"]
    ELSE LET saved   == [fs EXCEPT ![UPDATE_FILE_NEW] = io.content]
             backed  == IF io.backup = "ok"
                        THEN [saved EXCEPT ![UPDATE_FILE_BACKUP] = saved["main.py"]]
                        ELSE IF io.backup = "write_raises"
                        THEN [saved EXCEPT ![UPDATE_FILE_BACKUP] = Partial]
                        ELSE saved
             removed == IF io.remove = "ok"
                        THEN [backed EXCEPT !["main.py"] = Absent]
                        ELSE backed
         IN IF io.rename = "raises"
            THEN [files |-> CleanUp(removed, io), returned |-> "False"]
            ELSE [files    |-> [removed EXCEPT !["main.py"] = io.content,
                                               ![UPDATE_FILE_NEW] = Absent],
                  returned |-> "reset"]

\* UpdateManager.check_and_update(branch, auto_update) of a manager whose
\* current_version is given, remote being what _get_remote_version returns
\* (a version string, or None): the files afterwards, what is returned, and
\* whether _download_and_apply was called.
check_and_update(fs, current_version, auto_update, remote, io) ==
    IF ~auto_update
    THEN [files |-> fs, returned |-> "False", downloaded |-> FALSE]
    ELSE IF ~remote.ok
    THEN [files |-> fs, returned |-> "False", downloaded |-> FALSE]
    ELSE IF StrLessEq(remote.version, current_version)
    THEN [files |-> fs, returned |-> "False", downloaded |-> FALSE]
    ELSE LET r == _download_and_apply(fs, io)
         IN [files |-> r.files, returned |-> r.returned, downloaded |-> TRUE]

\* ------------------------------------------------------------------------
\* TimeAPI and SettingsAPI: the fetchers. A response to one request is of a
\* kind: "ok" (status 200 and a usable value), "empty" (status 200 without a
\* usable value), "status" (another status) or "raises" (the request, the
\* parsing or the construction of the result raises)
\* ------------------------------------------------------------------------

\* What a fetcher returns when every attempt failed: None.
NoValue == [ok |-> FALSE, value |-> 0, events |-> <<>>]

\* The retry loop with the sleep after every failed attempt, the last one
\* included.
RECURSIVE Attempts_SleepsAfterLast(_, _, _, _)
Attempts_SleepsAfterLast(responses, retries, attempt, events) ==
    IF attempt >= retries THEN [NoValue EXCEPT !.events = events]
    ELSE LET response == responses[attempt + 1]
             requested == Append(events, <<"get", attempt + 1>>)
         IN IF response.kind = "ok"
            THEN [ok |-> TRUE, value |-> response.value, events |-> requested]
            ELSE Attempts_SleepsAfterLast(responses, retries, attempt + 1,
                                          Append(requested, <<"sleep", 2>>))

\* for attempt in range(attempt, retries) of a fetcher (lines 476-498,
\* 505-526, 533-555, 559-570 and 581-618): a request per attempt, the value
\* of the first response that is usable, time.sleep(2) after a failed attempt
\* that is not the last; events is what has been done so far.
RECURSIVE Attempts(_, _, _, _)
Attempts(responses, retries, attempt, events) ==
    IF attempt >= retries THEN [NoValue EXCEPT !.events = events]
    ELSE LET response == responses[attempt + 1]
             requested == Append(events, <<"get", attempt + 1>>)
         IN IF response.kind = "ok"
            THEN [ok |-> TRUE, value |-> response.value, events |-> requested]
            ELSE Attempts(responses, retries, attempt + 1,
                          IF attempt < retries - 1
                          THEN Append(requested, <<"sleep", 2>>)
                          ELSE requested)

\* SettingsAPI.fetch_settings(retries).
fetch_settings(responses, retries) == Attempts(responses, retries, 0, <<>>)

\* TimeAPI.get_timezone(retries): a response without a timezone is "empty".
get_timezone(responses, retries) == Attempts(responses, retries, 0, <<>>)

\* TimeAPI.get_timezone_offset(timezone, retries).
get_timezone_offset(responses, retries) == Attempts(responses, retries, 0, <<>>)

\* TimeAPI.get_local_date(timezone, retries).
get_local_date(responses, retries) == Attempts(responses, retries, 0, <<>>)

\* TimeAPI.sync_ntp_time(retries): True or False in place of a value or None.
sync_ntp_time(responses, retries) ==
    [Attempts(responses, retries, 0, <<>>) EXCEPT !.value = 0]

\* ------------------------------------------------------------------------
\* CountdownApplication
\* ------------------------------------------------------------------------

\* The trace of an iteration that has not (yet) done anything.
NoTick ==
    [raised           |-> "none",   \* the call whose exception left the iteration
     sampled          |-> FALSE,    \* light_sensor.update() returned
     is_dark          |-> FALSE,
     consistent_dark  |-> FALSE,
     consistent_light |-> FALSE,
     timed            |-> FALSE,    \* in_time_range was computed
     in_time_range    |-> FALSE,
     strip_op         |-> "none",   \* "render", "clear" or "none"
     render_state     |-> -1,       \* the CountdownState object a render read
     refresh          |-> "none"]   \* outcome of _refresh_settings, if called

\* The responses of the time source and of the settings source to one call:
\* a value, or a failure (None after the retries).
DateResponses ==
    { [ok |-> TRUE, value |-> d] : d \in DateSamples }
        \cup { [ok |-> FALSE, value |-> <<0, 0, 0>>] }

SettingsResponses ==
    { [ok |-> TRUE, value |-> s] : s \in SettingsSamples }
        \cup { [ok |-> FALSE, value |-> CHOOSE s \in SettingsSamples : TRUE] }

\* time.ticks_ms() as read in iteration k.
ClockAt(k) == (k * TickPeriodMs) % TicksPeriod

\* The heap with the objects nothing refers to any more collected.
Collect(heap, cs, eng) ==
    [o \in {cs, eng.state} |-> heap[o]]

\* AnimationEngine.__init__(led_controller, countdown_state).
NewAnimationEngine(state_id) == [state |-> state_id]

\* The display decision without the else branch that blanks the strip
\* outside the window.
DisplayDecision_NoBlankOutside(in_time_range, consistent_dark, consistent_light) ==
    IF in_time_range
    THEN IF consistent_dark THEN "render"
         ELSE IF consistent_light THEN "clear"
         ELSE "none"
    ELSE "none"

\* _main_loop_iteration, lines 996-1007: what is done to the strip.
DisplayDecision(in_time_range, consistent_dark, consistent_light) ==
    IF in_time_range
    THEN IF consistent_dark THEN "render"
         ELSE IF consistent_light THEN "clear"
         ELSE "none"
    ELSE "clear"

\* The refresh condition without the time window.
ShouldRefresh_IgnoresWindow(in_time_range, consistent_light) ==
    consistent_light

\* _main_loop_iteration, line 1010: whether _refresh_settings is called.
ShouldRefresh(in_time_range, consistent_light) ==
    consistent_light /\ in_time_range

\* _refresh_settings that replaces countdown_state and leaves the engine on
\* the previous one.
_refresh_settings_StaleEngine(heap, cs, eng, new_id, date_resp, settings_resp, base_color, now_ms) ==
    IF ~date_resp.ok
    THEN [objects |-> heap, countdown_state |-> cs, animation_engine |-> eng,
          outcome |-> "date_failed"]
    ELSE IF ~settings_resp.ok
    THEN [objects |-> heap, countdown_state |-> cs, animation_engine |-> eng,
          outcome |-> "settings_failed"]
    ELSE IF CountdownStateRaises(settings_resp.value)
    THEN [objects |-> heap, countdown_state |-> cs, animation_engine |-> eng,
          outcome |-> "raised"]
    ELSE LET heap1 == [o \in DOMAIN heap \cup {new_id} |->
                          IF o = new_id
                          THEN NewCountdownState(date_resp.value, settings_resp.value,
                                                 base_color, now_ms)
                          ELSE heap[o]]
         IN [objects |-> Collect(heap1, new_id, eng),
             countdown_state |-> new_id, animation_engine |-> eng,
             outcome |-> "done"]

\* _refresh_settings that, when the settings fetch fails, rebuilds the state
\* from the new date and the settings it already has.
_refresh_settings_RebuildsOnFailure(heap, cs, eng, new_id, date_resp, settings_resp, base_color, now_ms) ==
    IF ~date_resp.ok
    THEN [objects |-> heap, countdown_state |-> cs, animation_engine |-> eng,
          outcome |-> "date_failed"]
    ELSE LET settings == IF settings_resp.ok THEN settings_resp.value
                         ELSE heap[cs].settings
         IN IF CountdownStateRaises(settings)
            THEN [objects |-> heap, countdown_state |-> cs, animation_engine |-> eng,
                  outcome |-> "raised"]
            ELSE LET new_eng == NewAnimationEngine(new_id)
                     heap1   == [o \in DOMAIN heap \cup {new_id} |->
                                    IF o = new_id
                                    THEN NewCountdownState(date_resp.value, settings,
                                                           base_color, now_ms)
                                    ELSE heap[o]]
                 IN [objects |-> Collect(heap1, new_id, new_eng),
                     countdown_state |-> new_id, animation_engine |-> new_eng,
                     outcome |-> IF settings_resp.ok THEN "done"
                                 ELSE "settings_failed"]

\* CountdownApplication._refresh_settings: the application's references and
\* the heap after the call, and how the call ended.
_refresh_settings(heap, cs, eng, new_id, date_resp, settings_resp, base_color, now_ms) ==
    IF ~date_resp.ok
    THEN [objects |-> heap, countdown_state |-> cs, animation_engine |-> eng,
          outcome |-> "date_failed"]
    ELSE IF ~settings_resp.ok
    THEN [objects |-> heap, countdown_state |-> cs, animation_engine |-> eng,
          outcome |-> "settings_failed"]
    ELSE IF CountdownStateRaises(settings_resp.value)
    THEN [objects |-> heap, countdown_state |-> cs, animation_engine |-> eng,
          outcome |-> "raised"]
    ELSE LET new_eng == NewAnimationEngine(new_id)
             heap1   == [o \in DOMAIN heap \cup {new_id} |->
                            IF o = new_id
                            THEN NewCountdownState(date_resp.value, settings_resp.value,
                                                   base_color, now_ms)
                            ELSE heap[o]]
         IN [objects |-> Collect(heap1, new_id, new_eng),
             countdown_state |-> new_id, animation_engine |-> new_eng,
             outcome |-> "done"]

\* run() without the except branch: the exception leaves the loop.
AfterError_Halts == "halted"

\* run(), lines 968-970: where control goes when an iteration raises.
AfterError == "sleep"

\* The end of one iteration: the new state, and control back in run().
Commit(heap, cs, eng, dark, light, shown, trace) ==
    /\ objects' = heap
    /\ countdown_state' = cs
    /\ animation_engine' = eng
    /\ consecutive_dark_count' = dark
    /\ consecutive_light_count' = light
    /\ strip' = shown
    /\ tick' = trace
    /\ pc' = IF trace.raised # "none" THEN AfterError ELSE "loop"
    /\ ticks' = ticks + 1
    /\ ticks_ms' = ClockAt(ticks + 1)
    /\ UNCHANGED <<files, startup>>
    /\ UNCHANGED <<consecutive_needed, timezone_offset, horizon, samples,
                   np, num_pixels, led, util>>

\* The second half of an iteration, from the display decision on.
DisplayAndRefresh(heap, sen, in_range) ==
    LET op     == DisplayDecision(in_range, sen.consistent_dark, sen.consistent_light)
        target == animation_engine.state
        trace0 == [NoTick EXCEPT !.sampled = TRUE,
                                 !.is_dark = sen.is_dark,
                                 !.consistent_dark = sen.consistent_dark,
                                 !.consistent_light = sen.consistent_light,
                                 !.timed = TRUE,
                                 !.in_time_range = in_range,
                                 !.strip_op = op,
                                 !.render_state = IF op = "render" THEN target ELSE -1]
        shown  == IF op = "render" THEN RenderMode(heap[target])
                  ELSE IF op = "clear" THEN "off"
                  ELSE strip
    IN IF op = "render" /\ RenderRaises(heap[target])
       THEN Commit(heap, countdown_state, animation_engine,
                   sen.consecutive_dark_count, sen.consecutive_light_count,
                   strip, [trace0 EXCEPT !.raised = "render"])
       ELSE IF ShouldRefresh(in_range, sen.consistent_light)
       THEN \E date_resp \in DateResponses, settings_resp \in SettingsResponses,
               base_color \in BaseColorSamples :
               LET r == _refresh_settings(heap, countdown_state, animation_engine,
                                          ticks + 1, date_resp, settings_resp, base_color,
                                          ClockAt(ticks + 1))
               IN Commit(r.objects, r.countdown_state, r.animation_engine,
                         sen.consecutive_dark_count, sen.consecutive_light_count,
                         shown,
                         [trace0 EXCEPT !.refresh = r.outcome,
                                        !.raised = IF r.outcome = "raised"
                                                   THEN "_refresh_settings"
                                                   ELSE "none"])
       ELSE Commit(heap, countdown_state, animation_engine,
                   sen.consecutive_dark_count, sen.consecutive_light_count,
                   shown, trace0)

\* CountdownApplication._main_loop_iteration, called from run().
Tick ==
    /\ pc = "loop"
    /\ ticks < horizon
    /\ \E reading \in ReadingSamples :
         /\ (reading.ok /\ reading.value > LDR_THRESHOLD)
                => consecutive_dark_count < MaxCount
         /\ (reading.ok /\ reading.value <= LDR_THRESHOLD)
                => consecutive_light_count < MaxCount
         /\ LET st   == update_flash_phase(
                            update_animation_phase(objects[countdown_state]),
                            ClockAt(ticks + 1))
                heap == [objects EXCEPT ![countdown_state] = st]
            IN IF ~reading.ok
               THEN Commit(heap, countdown_state, animation_engine,
                           consecutive_dark_count, consecutive_light_count, strip,
                           [NoTick EXCEPT !.raised = "light_sensor.update"])
               ELSE LET sen == LightSensorUpdate(consecutive_dark_count,
                                                 consecutive_light_count,
                                                 consecutive_needed, reading.value)
                    IN IF TimeRangeRaises(st.settings.start_time, st.settings.end_time)
                       THEN Commit(heap, countdown_state, animation_engine,
                                   sen.consecutive_dark_count,
                                   sen.consecutive_light_count, strip,
                                   [NoTick EXCEPT
                                       !.raised = "is_within_time_range",
                                       !.sampled = TRUE,
                                       !.is_dark = sen.is_dark,
                                       !.consistent_dark = sen.consistent_dark,
                                       !.consistent_light = sen.consistent_light])
                       ELSE \E raw \in RawTimeSamples :
                              DisplayAndRefresh(heap, sen,
                                  is_within_time_range(
                                      st.settings.start_time, st.settings.end_time,
                                      adjust_time_with_offset(raw, timezone_offset)))

\* run(): the except branch (log the error, time.sleep(1)) and back to the
\* top of the while loop.
SleepAfterError ==
    /\ pc = "sleep"
    /\ pc' = "loop"
    /\ UNCHANGED <<consecutive_dark_count, consecutive_light_count, consecutive_needed,
                   objects, countdown_state, animation_engine, timezone_offset,
                   strip, tick, ticks, horizon, samples, np, num_pixels, led, util,
                   ticks_ms, files, startup>>

\* The state when startup() has returned True and run() is entered. The main
\* loop is followed with the strip kept as what it shows: the pixel buffer is
\* left out (np is empty).
Started ==
    /\ pc = "loop"
    /\ consecutive_dark_count = 0
    /\ consecutive_light_count = 0
    /\ consecutive_needed = CONSECUTIVE_READINGS_NEEDED
    /\ countdown_state = 0
    /\ animation_engine = NewAnimationEngine(0)
    /\ \E current_date \in DateSamples, settings \in SettingsSamples,
          base_color \in BaseColorSamples :
          /\ ~CountdownStateRaises(settings)
          /\ objects = [o \in {0} |->
                          NewCountdownState(current_date, settings, base_color,
                                            ClockAt(0))]
    /\ timezone_offset \in OffsetSamples
    /\ strip = "off"
    /\ tick = NoTick
    /\ ticks = 0
    /\ samples = <<>>
    /\ np = <<>>
    /\ num_pixels = 0
    /\ led = NoCall
    /\ util = NoUtilCall
    /\ ticks_ms = ClockAt(0)
    /\ files = DeviceFiles
    /\ startup = StartupCompleted

Init == Started /\ horizon = MaxTicks

Next == Tick \/ SleepAfterError

Spec == Init /\ [][Next]_vars

\* ------------------------------------------------------------------------
\* The main loop after it has run for a while: run() from the state that k
\* iterations leave when the readings alternate between dark and light
\* (dark first), so that neither flag of the debouncer is ever raised, the
\* strip is never lit and the settings are never refreshed
\* ------------------------------------------------------------------------

\* The CountdownState after iterations k + 1 .. upto have updated it (lines
\* 975-976 of each). The phase is never negative: that test only makes each
\* state be computed before the next one is.
RECURSIVE Warmed(_, _, _)
Warmed(st, k, upto) ==
    IF k >= upto \/ st.animation_phase < 0 THEN st
    ELSE Warmed(update_flash_phase(update_animation_phase(st), ClockAt(k + 1)),
                k + 1, upto)

\* The state at the top of the while loop after k >= 1 such iterations.
Soaked(k) ==
    /\ pc = "loop"
    /\ consecutive_dark_count = (IF k % 2 = 1 THEN 1 ELSE 0)
    /\ consecutive_light_count = (IF k % 2 = 1 THEN 0 ELSE 1)
    /\ consecutive_needed = CONSECUTIVE_READINGS_NEEDED
    /\ countdown_state = 0
    /\ animation_engine = NewAnimationEngine(0)
    /\ timezone_offset \in OffsetSamples
    /\ \E current_date \in DateSamples, settings \in SettingsSamples,
          base_color \in BaseColorSamples, raw \in RawTimeSamples :
          /\ ~CountdownStateRaises(settings)
          /\ ~TimeRangeRaises(settings.start_time, settings.end_time)
          /\ objects = [o \in {0} |->
                          Warmed(NewCountdownState(current_date, settings,
                                                   base_color, ClockAt(0)),
                                 0, k)]
          /\ LET in_range == is_within_time_range(
                                 settings.start_time, settings.end_time,
                                 adjust_time_with_offset(raw, timezone_offset))
             IN tick = [NoTick EXCEPT
                           !.sampled = TRUE,
                           !.is_dark = (k % 2 = 1),
                           !.timed = TRUE,
                           !.in_time_range = in_range,
                           !.strip_op = DisplayDecision(in_range, FALSE, FALSE)]
    /\ strip = "off"
    /\ ticks = k
    /\ ticks_ms = ClockAt(k)
    /\ files = DeviceFiles
    /\ startup = StartupCompleted
    /\ samples = <<>>
    /\ np = <<>>
    /\ num_pixels = 0
    /\ led = NoCall
    /\ util = NoUtilCall

SoakInit == Soaked(WarmupTicks) /\ horizon = WarmupTicks + SoakTicks

SoakSpec == SoakInit /\ [][Next]_vars

\* ------------------------------------------------------------------------
\* The debouncer on its own: a LightSensor with any threshold, fed a bounded
\* sequence of readings
\* ------------------------------------------------------------------------

ThresholdSamples == (1 .. MaxNeeded) \cup {CONSECUTIVE_READINGS_NEEDED}

\* Number of places where a sequence of readings changes between dark and light.
Flips(seq) ==
    Cardinality({ i \in 1 .. (Len(seq) - 1) :
                    (seq[i] > LDR_THRESHOLD) # (seq[i + 1] > LDR_THRESHOLD) })

\* LightSensor.__init__ with consecutive_needed given.
SensorInit ==
    /\ pc = "sensor"
    /\ consecutive_dark_count = 0
    /\ consecutive_light_count = 0
    /\ consecutive_needed \in ThresholdSamples
    /\ objects = <<>>
    /\ countdown_state = 0
    /\ animation_engine = NewAnimationEngine(0)
    /\ timezone_offset = 0
    /\ strip = "off"
    /\ tick = NoTick
    /\ ticks = 0
    /\ horizon = 0
    /\ samples = <<>>
    /\ np = <<>>
    /\ num_pixels = 0
    /\ led = NoCall
    /\ util = NoUtilCall
    /\ ticks_ms = 0
    /\ files = DeviceFiles
    /\ startup = NoStartup

\* One call of LightSensor.update().
SensorSample ==
    /\ pc = "sensor"
    /\ Len(samples) < MaxSamples
    /\ \E reading \in { r \in ReadingSamples : r.ok } :
         LET sen == LightSensorUpdate(consecutive_dark_count, consecutive_light_count,
                                      consecutive_needed, reading.value)
         IN /\ Flips(Append(samples, reading.value)) <= MaxFlips
            /\ samples' = Append(samples, reading.value)
            /\ consecutive_dark_count' = sen.consecutive_dark_count
            /\ consecutive_light_count' = sen.consecutive_light_count
            /\ tick' = [NoTick EXCEPT !.sampled = TRUE,
                                      !.is_dark = sen.is_dark,
                                      !.consistent_dark = sen.consistent_dark,
                                      !.consistent_light = sen.consistent_light]
    /\ UNCHANGED <<pc, consecutive_needed, objects, countdown_state, animation_engine,
                   timezone_offset, strip, ticks, horizon, np, num_pixels, led,
                   util, ticks_ms, files, startup>>

SensorNext == SensorSample

SensorSpec == SensorInit /\ [][SensorNext]_vars


\* ------------------------------------------------------------------------
\* The AnimationEngine on its own: an LED strip and a CountdownState of any
\* shape, and a bounded number of calls on them
\* ------------------------------------------------------------------------

\* The settings fields the renderers read.
MkRenderSettings(is_reverse, from_pi, with_marker, use_custom_colors, colors) ==
    [is_reverse |-> is_reverse, from_pi |-> from_pi, with_marker |-> with_marker,
     use_custom_colors |-> use_custom_colors,
     primary_color |-> colors[1], secondary_color |-> colors[2],
     marker_color |-> colors[3]]

\* <<primary, secondary, marker>> colour strings: well formed, and with the
\* primary or the marker colour malformed.
ColorSamples ==
    { <<ColorStr(200, 0, 0), ColorStr(0, 120, 0), ColorStr(255, 255, 255)>>,
      <<MalformedColorStr, ColorStr(0, 120, 0), ColorStr(255, 255, 255)>>,
      <<ColorStr(200, 0, 0), ColorStr(0, 120, 0), MalformedColorStr>> }

\* The settings explored: every combination of the four flags with well
\* formed colours, and a malformed colour where the flags make the renderer
\* parse it.
RenderSettingsSamples ==
    { MkRenderSettings(f[1], f[2], f[3], f[4], colors) :
        f \in { g \in BOOLEAN \X BOOLEAN \X BOOLEAN \X BOOLEAN : TRUE },
        colors \in ColorSamples } \ 
    { s \in { MkRenderSettings(f[1], f[2], f[3], f[4], colors) :
                f \in { g \in BOOLEAN \X BOOLEAN \X BOOLEAN \X BOOLEAN : TRUE },
                colors \in ColorSamples } :
        \/ (~s.primary_color.ok /\ ~s.use_custom_colors)
        \/ (~s.marker_color.ok /\ ~s.with_marker) }

\* <<animation_phase, swap_phase>>: after 0 advances and not swapped, after
\* 94 advances (sin < 0) and swapped.
AnimationSamples == { <<0, FALSE>>, <<94 * ANIMATION_SPEED, TRUE>> }

\* <<countdown_length, days_remaining>>: every length up to MaxLength with
\* every days_remaining from the day after the target to before the start.
LengthSamples ==
    { ld \in (0 .. MaxLength) \X (-1 .. (MaxLength + 1)) : ld[2] <= ld[1] + 1 }

PixelSamples == (MaxPixels - 1) .. MaxPixels

\* The indices tried on set_pixel and get_pixel.
IndexSamples == { -1, 0, num_pixels }

\* The engine is given a strip that is off, or one left filled with a colour
\* (as startup_animation's yellow flash leaves it), and a CountdownState with
\* settings and animation values from the given sets, for a given number of
\* calls.
RenderInitFor(settings_samples, animation_samples, calls) ==
    /\ pc = "render"
    /\ consecutive_dark_count = 0
    /\ consecutive_light_count = 0
    /\ consecutive_needed = CONSECUTIVE_READINGS_NEEDED
    /\ countdown_state = 0
    /\ animation_engine = NewAnimationEngine(0)
    /\ \E ld \in LengthSamples, anim \in animation_samples,
          settings \in settings_samples, base_color \in BaseColorSamples :
          objects = [o \in {0} |->
                       [days_remaining   |-> ld[2],
                        countdown_length |-> ld[1],
                        base_color       |-> base_color,
                        animation_phase  |-> anim[1],
                        is_flashing      |-> TRUE,
                        swap_phase       |-> anim[2],
                        settings         |-> settings]]
    /\ timezone_offset = 0
    /\ tick = NoTick
    /\ ticks = 0
    /\ horizon = calls
    /\ samples = <<>>
    /\ num_pixels \in PixelSamples
    /\ \/ np = NewPixels(num_pixels) /\ strip = "off"
       \/ np = fill(NewPixels(num_pixels), <<155, 155, 0>>) /\ strip = "filled"
    /\ led = NoCall
    /\ util = NoUtilCall
    /\ ticks_ms = 0
    /\ files = DeviceFiles
    /\ startup = NoStartup

RenderInitWith(settings_samples, animation_samples) ==
    RenderInitFor(settings_samples, animation_samples, MaxCalls)

RenderInit == RenderInitWith(RenderSettingsSamples, AnimationSamples)

\* What a call on the LED classes leaves alone.
LedFrame ==
    /\ ticks' = ticks + 1
    /\ UNCHANGED <<pc, consecutive_dark_count, consecutive_light_count,
                   consecutive_needed, objects, countdown_state, animation_engine,
                   timezone_offset, tick, horizon, samples, num_pixels, util,
                   ticks_ms, files, startup>>

\* One call of AnimationEngine.render().
Render ==
    /\ pc = "render"
    /\ ticks < horizon
    /\ \E stream \in RandomStreams :
         LET r == render(np, objects[animation_engine.state], stream)
         IN /\ np' = r.np
            /\ strip' = IF r.written THEN r.mode ELSE strip
            /\ led' = [NoCall EXCEPT !.op = "render", !.raised = r.raised,
                                     !.mode = r.mode, !.written = r.written,
                                     !.fills = r.fills, !.marks = r.marks]
    /\ LedFrame

\* One call of LEDStripController.clear().
Clear ==
    /\ pc = "render"
    /\ ticks < horizon
    /\ np' = NewPixels(num_pixels)
    /\ strip' = "off"
    /\ led' = [NoCall EXCEPT !.op = "clear", !.written = TRUE]
    /\ LedFrame

\* One call of LEDStripController.set_pixel(index, color).
SetPixel ==
    /\ pc = "render"
    /\ ticks < horizon
    /\ \E index \in IndexSamples :
         /\ np' = set_pixel(np, index, <<155, 155, 0>>)
         /\ led' = [NoCall EXCEPT !.op = "set_pixel", !.index = index]
    /\ UNCHANGED strip
    /\ LedFrame

\* One call of LEDStripController.get_pixel(index).
GetPixel ==
    /\ pc = "render"
    /\ ticks < horizon
    /\ \E index \in IndexSamples :
         led' = [NoCall EXCEPT !.op = "get_pixel", !.index = index,
                              !.result = get_pixel(np, index)]
    /\ UNCHANGED <<np, strip>>
    /\ LedFrame

RenderNext == Render \/ Clear \/ SetPixel \/ GetPixel

RenderSpec == RenderInit /\ [][RenderNext]_vars

\* ------------------------------------------------------------------------
\* The AnimationEngine on its own, for the colours of the blocks: every
\* swap-phase at animation phases on both sides of sin = 0, markers off,
\* well formed colours
\* ------------------------------------------------------------------------

\* Animation phases after 0, 31, 66 and 94 advances: sin = 0, sin close to 1
\* (the largest lighten factor), sin < 0, and sin close to -1 (a lighten
\* factor of 1).
PhaseSamples ==
    { 0, 31 * ANIMATION_SPEED, 66 * ANIMATION_SPEED, 94 * ANIMATION_SPEED }

PulseAnimationSamples == PhaseSamples \X BOOLEAN

PulseSettingsSamples ==
    { s \in RenderSettingsSamples :
        /\ ~s.with_marker
        /\ s.primary_color.ok /\ s.secondary_color.ok /\ s.marker_color.ok }

PulseInit == RenderInitWith(PulseSettingsSamples, PulseAnimationSamples)

PulseSpec == PulseInit /\ [][RenderNext]_vars

\* ------------------------------------------------------------------------
\* The AnimationEngine on its own, for the values in the pixel buffer: ticks
\* that render or blank, with configured colours whose channels are outside
\* 0 .. 255
\* ------------------------------------------------------------------------

\* <<primary, secondary, marker>> colour strings that parse to channels above
\* 255 and below 0.
GamutColorSamples ==
    { <<ColorStr(300, 0, 0 - 5), ColorStr(0, 300, 0 - 5), ColorStr(255, 255, 300)>> }

\* Markers on, either orientation, with and without custom colours.
GamutSettingsSamples ==
    { MkRenderSettings(FALSE, f[1], TRUE, f[2], colors) :
        f \in BOOLEAN \X BOOLEAN, colors \in GamutColorSamples }

\* The animation phase after 31 advances (the largest lighten factor).
GamutAnimationSamples == { <<31 * ANIMATION_SPEED, FALSE>> }

GamutInit ==
    RenderInitFor(GamutSettingsSamples, GamutAnimationSamples, MaxFrames)

\* A tick of the main loop as the strip sees it: animation_engine.render()
\* or led.clear().
GamutNext == Render \/ Clear

GamutSpec == GamutInit /\ [][GamutNext]_vars

\* ------------------------------------------------------------------------
\* DateUtils on its own: one call of a static method on sampled arguments
\* ------------------------------------------------------------------------

\* Window bounds and times of day tried on is_within_time_range.
WindowSamples ==
    { TimeStr(0, 0), TimeStr(6, 0), TimeStr(8, 0), TimeStr(20, 0),
      TimeStr(22, 0), TimeStr(23, 59) }

TimeOfDaySamples ==
    { <<0, 0>>, <<5, 59>>, <<6, 0>>, <<6, 1>>, <<12, 0>>, <<21, 59>>,
      <<22, 0>>, <<23, 30>>, <<23, 59>> }

\* Dates tried on days_between: around month ends, a year end and leap days
\* (of a year divisible by 400 and of ordinary leap years), within the years
\* whose seconds since 1970 fit 32-bit integers.
CalendarSamples ==
    { <<2000, 2, 29>>, <<2000, 3, 1>>, <<2023, 2, 28>>, <<2023, 3, 1>>,
      <<2023, 12, 31>>, <<2024, 1, 1>>, <<2024, 2, 28>>, <<2024, 2, 29>>,
      <<2024, 3, 1>>, <<2036, 2, 29>> }

DateInit ==
    /\ pc = "call"
    /\ consecutive_dark_count = 0
    /\ consecutive_light_count = 0
    /\ consecutive_needed = CONSECUTIVE_READINGS_NEEDED
    /\ objects = <<>>
    /\ countdown_state = 0
    /\ animation_engine = NewAnimationEngine(0)
    /\ timezone_offset = 0
    /\ strip = "off"
    /\ tick = NoTick
    /\ ticks = 0
    /\ horizon = 0
    /\ samples = <<>>
    /\ np = <<>>
    /\ num_pixels = 0
    /\ led = NoCall
    /\ util = NoUtilCall
    /\ ticks_ms = 0
    /\ files = DeviceFiles
    /\ startup = NoStartup

\* What a call of a static method of DateUtils leaves alone.
DateFrame ==
    /\ pc' = "returned"
    /\ UNCHANGED <<consecutive_dark_count, consecutive_light_count,
                   consecutive_needed, objects, countdown_state, animation_engine,
                   timezone_offset, strip, tick, ticks, horizon, samples, np,
                   num_pixels, led, ticks_ms, files, startup>>

\* One call of DateUtils.is_within_time_range.
IsWithinTimeRange ==
    /\ pc = "call"
    /\ \E start_time_str \in WindowSamples, end_time_str \in WindowSamples,
          current_hm \in TimeOfDaySamples :
          util' = [fn     |-> "is_within_time_range",
                   args   |-> <<start_time_str, end_time_str, current_hm>>,
                   result |-> is_within_time_range(start_time_str, end_time_str,
                                                   current_hm)]
    /\ DateFrame

\* One call of DateUtils.days_between.
DaysBetween ==
    /\ pc = "call"
    /\ \E date1_tuple \in CalendarSamples, date2 \in CalendarSamples :
          util' = [fn     |-> "days_between",
                   args   |-> <<date1_tuple, date2>>,
                   result |-> days_between(date1_tuple,
                                           DateStr(date2[1], date2[2], date2[3]))]
    /\ DateFrame

DateNext == IsWithinTimeRange \/ DaysBetween

DateSpec == DateInit /\ [][DateNext]_vars

\* ------------------------------------------------------------------------
\* A CountdownState on its own: the two updates that open every main-loop
\* iteration (lines 975-976), called in turn on a freshly built state, the
\* millisecond clock read at irregular times
\* ------------------------------------------------------------------------

\* flash_speed values (1/10000 s): -1 s, 0, 0.5 ms, 1.5 ms, 1 s and 2 s.
FlashSpeedSamples == { 0 - 10000, 0, 5, 15, 10000, 20000 }

\* Milliseconds between two readings of time.ticks_ms().
ElapsedSamples == { 0, 1, TickPeriodMs - 1, TickPeriodMs, TickPeriodMs + 1 }

\* time.ticks_ms() when the state is built: just after boot, and shortly
\* before the counter wraps.
ClockStartSamples == { 0, TicksPeriod - (TickPeriodMs + TickPeriodMs \div 2) }

StateInit ==
    /\ pc = "phase"
    /\ consecutive_dark_count = 0
    /\ consecutive_light_count = 0
    /\ consecutive_needed = CONSECUTIVE_READINGS_NEEDED
    /\ countdown_state = 0
    /\ animation_engine = NewAnimationEngine(0)
    /\ ticks_ms \in ClockStartSamples
    /\ files = DeviceFiles
    /\ startup = NoStartup
    /\ \E current_date \in DateSamples, flash_speed \in FlashSpeedSamples,
          base_color \in BaseColorSamples :
          objects = [o \in {0} |->
                       NewCountdownState(
                           current_date,
                           MkSettings(DateStr(2024, 3, 1), DateStr(2024, 2, 27),
                                      TimeStr(8, 0), TimeStr(20, 0), flash_speed),
                           base_color, ticks_ms)]
    /\ timezone_offset = 0
    /\ strip = "off"
    /\ tick = NoTick
    /\ ticks = 0
    /\ horizon = MaxAdvances
    /\ samples = <<>>
    /\ np = <<>>
    /\ num_pixels = 0
    /\ led = NoCall
    /\ util = NoUtilCall

\* What a method of CountdownState leaves alone.
StateFrame ==
    UNCHANGED <<consecutive_dark_count, consecutive_light_count,
                consecutive_needed, countdown_state, animation_engine,
                timezone_offset, strip, tick, horizon, samples, np, num_pixels,
                led, util, files, startup>>

\* One call of CountdownState.update_animation_phase().
UpdateAnimationPhase ==
    /\ pc = "phase"
    /\ ticks < horizon
    /\ objects' = [objects EXCEPT
                      ![countdown_state] = update_animation_phase(@)]
    /\ ticks' = ticks + 1
    /\ pc' = "flash"
    /\ UNCHANGED ticks_ms
    /\ StateFrame

\* One call of CountdownState.update_flash_phase(), some time after the
\* clock was last read.
UpdateFlashPhase ==
    /\ pc = "flash"
    /\ \E elapsed \in IF ticks <= MaxIrregular THEN ElapsedSamples
                       ELSE {TickPeriodMs} :
          LET now == (ticks_ms + elapsed) % TicksPeriod
          IN /\ ticks_ms' = now
             /\ objects' = [objects EXCEPT
                               ![countdown_state] = update_flash_phase(@, now)]
    /\ pc' = "phase"
    /\ UNCHANGED ticks
    /\ StateFrame

StateNext == UpdateAnimationPhase \/ UpdateFlashPhase

StateSpec == StateInit /\ [][StateNext]_vars

\* ------------------------------------------------------------------------
\* ColorUtils on its own: clamp on sampled integers, and clamp on what it
\* returned
\* ------------------------------------------------------------------------

\* The integers tried on clamp, with the default bounds 0 and 255.
ValueSamples == (0 - MaxOvershoot) .. (255 + MaxOvershoot)

ColorInit ==
    /\ pc = "color"
    /\ consecutive_dark_count = 0
    /\ consecutive_light_count = 0
    /\ consecutive_needed = CONSECUTIVE_READINGS_NEEDED
    /\ objects = <<>>
    /\ countdown_state = 0
    /\ animation_engine = NewAnimationEngine(0)
    /\ timezone_offset = 0
    /\ strip = "off"
    /\ tick = NoTick
    /\ ticks = 0
    /\ horizon = 0
    /\ samples = <<>>
    /\ np = <<>>
    /\ num_pixels = 0
    /\ led = NoCall
    /\ util = NoUtilCall
    /\ ticks_ms = 0
    /\ files = DeviceFiles
    /\ startup = NoStartup

\* What a call of a static method of ColorUtils leaves alone.
ColorFrame ==
    UNCHANGED <<consecutive_dark_count, consecutive_light_count,
                consecutive_needed, objects, countdown_state, animation_engine,
                timezone_offset, strip, tick, ticks, horizon, samples, np,
                num_pixels, led, ticks_ms, files, startup>>

\* One call of ColorUtils.clamp(value).
Clamp ==
    /\ pc = "color"
    /\ \E value \in ValueSamples :
          util' = [fn     |-> "clamp",
                   args   |-> <<value>>,
                   result |-> clamp(value, 0, 255)]
    /\ pc' = "clamped"
    /\ ColorFrame

\* ColorUtils.clamp called on the value the previous call returned.
ClampAgain ==
    /\ pc = "clamped"
    /\ util' = [fn     |-> "clamp",
                args   |-> <<util.result>>,
                result |-> clamp(util.result, 0, 255)]
    /\ pc' = "reclamped"
    /\ ColorFrame

ColorNext == Clamp \/ ClampAgain

ColorSpec == ColorInit /\ [][ColorNext]_vars

\* The main loop under the scheduling run() gives it: the iteration and the
\* return from the except branch are each taken when they can be.
FairInit == Started /\ horizon = FairTicks

FairSpec == FairInit /\ [][Next]_vars /\ WF_vars(Tick) /\ WF_vars(SleepAfterError)

\* ------------------------------------------------------------------------
\* An UpdateManager on its own: one call of check_and_update or of
\* _download_and_apply on a device that holds the running main.py
\* ------------------------------------------------------------------------

\* Release numbers of the running and of the remote main.py.
VersionSamples ==
    { <<1, 0, 1>>, <<1, 0, 2>>, <<1, 0, 9>>, <<1, 0, 10>>, <<1, 1, 0>>,
      <<1, 10, 0>>, <<2, 0, 0>> }

\* What _get_remote_version returns: the version string of a release, or
\* None.
RemoteVersions ==
    { [ok |-> TRUE, parts |-> v, version |-> VersionStr(v)] : v \in VersionSamples }
        \cup { [ok |-> FALSE, parts |-> <<0>>, version |-> <<>>] }

\* The text of a download: one character short of 1000 or 1000 characters
\* long, with and without each of the two strings looked for.
ContentSamples ==
    { [kind |-> "download", size |-> n, import_network |-> i, def_main |-> d] :
        n \in {999, 1000}, i \in BOOLEAN, d \in BOOLEAN }

\* The outcomes of the steps of a download: the request raises, answers with
\* a status other than 200 or with a text; opening or writing the new file,
\* reading main.py or writing the backup, removing main.py, renaming the new
\* file and removing it afterwards can each raise.
DownloadOutcomes ==
    { [get |-> "raises", content |-> c, save |-> "ok", backup |-> "ok",
       remove |-> "ok", rename |-> "ok", cleanup |-> u] :
        c \in { x \in ContentSamples : x.size = 999 /\ ~x.import_network /\ ~x.def_main },
        u \in {"ok", "raises"} }
    \cup
    { [get |-> "status", content |-> c, save |-> "ok", backup |-> "ok",
       remove |-> "ok", rename |-> "ok", cleanup |-> "ok"] :
        c \in { x \in ContentSamples : x.size = 999 /\ ~x.import_network /\ ~x.def_main } }
    \cup
    { [get |-> "ok", content |-> c, save |-> s, backup |-> b,
       remove |-> rm, rename |-> rn, cleanup |-> u] :
        c \in ContentSamples,
        s \in {"ok", "open_raises", "write_raises"},
        b \in {"ok", "read_raises", "write_raises"},
        rm \in {"ok", "raises"}, rn \in {"ok", "raises"},
        u \in {"ok", "raises"} }

UpdateInit ==
    /\ pc = "update"
    /\ consecutive_dark_count = 0
    /\ consecutive_light_count = 0
    /\ consecutive_needed = CONSECUTIVE_READINGS_NEEDED
    /\ objects = <<>>
    /\ countdown_state = 0
    /\ animation_engine = NewAnimationEngine(0)
    /\ timezone_offset = 0
    /\ strip = "off"
    /\ tick = NoTick
    /\ ticks = 0
    /\ horizon = 0
    /\ samples = <<>>
    /\ np = <<>>
    /\ num_pixels = 0
    /\ led = NoCall
    /\ util = NoUtilCall
    /\ ticks_ms = 0
    /\ files = DeviceFiles
    /\ startup = NoStartup

\* What a call on the UpdateManager leaves alone.
UpdateFrame ==
    /\ pc' = "returned"
    /\ UNCHANGED <<consecutive_dark_count, consecutive_light_count,
                   consecutive_needed, objects, countdown_state, animation_engine,
                   timezone_offset, strip, tick, ticks, horizon, samples, np,
                   num_pixels, led, ticks_ms, startup>>

\* One call of UpdateManager.check_and_update.
CheckAndUpdate ==
    /\ pc = "update"
    /\ \E current \in VersionSamples, auto_update \in BOOLEAN,
          remote \in RemoteVersions, io \in DownloadOutcomes :
          LET r == check_and_update(files, VersionStr(current), auto_update,
                                    remote, io)
          IN /\ files' = r.files
             /\ util' = [fn     |-> "check_and_update",
                         args   |-> <<current, auto_update, remote, io>>,
                         result |-> [returned   |-> r.returned,
                                     downloaded |-> r.downloaded]]
    /\ UpdateFrame

\* One call of UpdateManager._download_and_apply.
DownloadAndApply ==
    /\ pc = "update"
    /\ \E io \in DownloadOutcomes :
          LET r == _download_and_apply(files, io)
          IN /\ files' = r.files
             /\ util' = [fn     |-> "_download_and_apply",
                         args   |-> <<io>>,
                         result |-> [returned |-> r.returned, downloaded |-> TRUE]]
    /\ UpdateFrame

UpdateNext == CheckAndUpdate \/ DownloadAndApply

UpdateSpec == UpdateInit /\ [][UpdateNext]_vars

\* ------------------------------------------------------------------------
\* The fetchers on their own: one call, with any number of retries up to
\* MaxRetries and any response to each request
\* ------------------------------------------------------------------------

\* The kinds of response each fetcher can get: only get_timezone tests the
\* value for being empty, and ntptime.settime() returns or raises.
ResponseKinds(fn) ==
    IF fn = "get_timezone" THEN {"ok", "empty", "status", "raises"}
    ELSE IF fn = "sync_ntp_time" THEN {"ok", "raises"}
    ELSE {"ok", "status", "raises"}

\* The responses to retries requests in a row; the value of the k-th is k.
ResponseSamples(fn, retries) ==
    { [k \in 1 .. retries |-> [kind |-> kinds[k], value |-> k]] :
        kinds \in [1 .. retries -> ResponseKinds(fn)] }

FetchInit ==
    /\ pc = "fetch"
    /\ consecutive_dark_count = 0
    /\ consecutive_light_count = 0
    /\ consecutive_needed = CONSECUTIVE_READINGS_NEEDED
    /\ objects = <<>>
    /\ countdown_state = 0
    /\ animation_engine = NewAnimationEngine(0)
    /\ timezone_offset = 0
    /\ strip = "off"
    /\ tick = NoTick
    /\ ticks = 0
    /\ horizon = 0
    /\ samples = <<>>
    /\ np = <<>>
    /\ num_pixels = 0
    /\ led = NoCall
    /\ util = NoUtilCall
    /\ ticks_ms = 0
    /\ files = DeviceFiles
    /\ startup = NoStartup

\* What a call of a fetcher leaves alone.
FetchFrame ==
    /\ pc' = "returned"
    /\ UNCHANGED <<consecutive_dark_count, consecutive_light_count,
                   consecutive_needed, objects, countdown_state, animation_engine,
                   timezone_offset, strip, tick, ticks, horizon, samples, np,
                   num_pixels, led, ticks_ms, files, startup>>

\* One call of SettingsAPI.fetch_settings.
FetchSettings ==
    /\ pc = "fetch"
    /\ \E retries \in 0 .. MaxRetries :
         \E responses \in ResponseSamples("fetch_settings", retries) :
            util' = [fn     |-> "fetch_settings",
                     args   |-> <<responses, retries>>,
                     result |-> fetch_settings(responses, retries)]
    /\ FetchFrame

\* One call of TimeAPI.get_timezone.
GetTimezone ==
    /\ pc = "fetch"
    /\ \E retries \in 0 .. MaxRetries :
         \E responses \in ResponseSamples("get_timezone", retries) :
            util' = [fn     |-> "get_timezone",
                     args   |-> <<responses, retries>>,
                     result |-> get_timezone(responses, retries)]
    /\ FetchFrame

\* One call of TimeAPI.get_timezone_offset.
GetTimezoneOffset ==
    /\ pc = "fetch"
    /\ \E retries \in 0 .. MaxRetries :
         \E responses \in ResponseSamples("get_timezone_offset", retries) :
            util' = [fn     |-> "get_timezone_offset",
                     args   |-> <<responses, retries>>,
                     result |-> get_timezone_offset(responses, retries)]
    /\ FetchFrame

\* One call of TimeAPI.get_local_date.
GetLocalDate ==
    /\ pc = "fetch"
    /\ \E retries \in 0 .. MaxRetries :
         \E responses \in ResponseSamples("get_local_date", retries) :
            util' = [fn     |-> "get_local_date",
                     args   |-> <<responses, retries>>,
                     result |-> get_local_date(responses, retries)]
    /\ FetchFrame

\* One call of TimeAPI.sync_ntp_time.
SyncNtpTime ==
    /\ pc = "fetch"
    /\ \E retries \in 0 .. MaxRetries :
         \E responses \in ResponseSamples("sync_ntp_time", retries) :
            util' = [fn     |-> "sync_ntp_time",
                     args   |-> <<responses, retries>>,
                     result |-> sync_ntp_time(responses, retries)]
    /\ FetchFrame

FetchNext ==
    FetchSettings \/ GetTimezone \/ GetTimezoneOffset \/ GetLocalDate
        \/ SyncNtpTime

FetchSpec == FetchInit /\ [][FetchNext]_vars

\* ------------------------------------------------------------------------
\* The application from power-on: main() constructs the application, calls
\* startup() and enters run() if it returned True
\* ------------------------------------------------------------------------

\* The release numbers of VERSION.
VERSION == <<1, 0, 1>>

\* None, for countdown_state and animation_engine (an object id) and for
\* timezone_offset (a number of hours, of which 100 is not one).
NoObject == -1

NoOffset == 100

\* The outcomes of a download that startup is followed with: the new file
\* takes the place of main.py, or the request raises.
BootDownloadSamples ==
    { io \in DownloadOutcomes :
        /\ io.cleanup = "ok"
        /\ \/ io.get = "raises"
           \/ /\ io.get = "ok" /\ io.content.size = 1000
              /\ io.content.import_network /\ io.content.def_main
              /\ io.save = "ok" /\ io.backup = "ok" /\ io.remove = "ok"
              /\ io.rename = "ok" }

\* What the update check meets: auto_update of the settings, the remote
\* version (none, the running one, a later one) and the download.
BootUpdateSamples ==
    { [auto_update |-> a, remote |-> r, io |-> io] :
        a \in BOOLEAN,
        r \in { x \in RemoteVersions :
                  ~x.ok \/ x.parts \in { VERSION, <<1, 0, 2>> } },
        io \in BootDownloadSamples }

\* What startup() meets at each of its steps: whether WiFi connects, whether
\* the first settings fetch returns settings, the update check, whether a
\* timezone is returned, the offset, the local date and the settings
\* returned (or None), whether the NTP sync succeeds, and the base colour
\* drawn.
BootEnvironments ==
    { [wifi |-> w, temp_settings |-> t, update |-> u, timezone |-> z,
       timezone_offset |-> o, local_date |-> d, ntp |-> n, settings |-> c,
       base_color |-> b] :
        w \in BOOLEAN, t \in BOOLEAN, u \in BootUpdateSamples, z \in BOOLEAN,
        o \in { [ok |-> TRUE, value |-> h] : h \in OffsetSamples }
                 \cup { [ok |-> FALSE, value |-> NoOffset] },
        d \in DateResponses, n \in BOOLEAN, c \in SettingsResponses,
        b \in BaseColorSamples }

\* _error_state(message) and return False, at the step named.
StartupFailed(trace, step, fs) ==
    [trace |-> [trace EXCEPT !.returned = "False", !.failed = step],
     strip |-> "error",
     files |-> fs]

\* startup() in which a failed NTP sync ends the startup as the other
\* failures do.
CountdownApplication_startup_NtpRequired(fs, env) ==
    IF ~env.wifi THEN StartupFailed(NoStartup, "wifi", fs)
    ELSE LET connected == [NoStartup EXCEPT !.wifi = TRUE]
             checked   == IF env.temp_settings /\ env.update.auto_update
                          THEN check_and_update(fs, VersionStr(VERSION), TRUE,
                                                env.update.remote, env.update.io)
                          ELSE [files |-> fs, returned |-> "False",
                                downloaded |-> FALSE]
             zoned     == [connected EXCEPT !.timezone = TRUE]
             offset    == [zoned EXCEPT !.timezone_offset = TRUE]
             dated     == [offset EXCEPT !.local_date = TRUE]
             synced    == [dated EXCEPT !.ntp = env.ntp]
             fetched   == [synced EXCEPT !.settings = TRUE]
         IN IF checked.returned = "reset"
            THEN [trace |-> [connected EXCEPT !.returned = "reset"],
                  strip |-> "update",
                  files |-> checked.files]
            ELSE IF ~env.timezone
            THEN StartupFailed(connected, "timezone", checked.files)
            ELSE IF ~env.timezone_offset.ok
            THEN StartupFailed(zoned, "timezone_offset", checked.files)
            ELSE IF ~env.local_date.ok
            THEN StartupFailed(offset, "local_date", checked.files)
            ELSE IF ~env.ntp
            THEN StartupFailed(synced, "ntp", checked.files)
            ELSE IF ~env.settings.ok
            THEN StartupFailed(synced, "settings", checked.files)
            ELSE IF CountdownStateRaises(env.settings.value)
            THEN [trace |-> [fetched EXCEPT !.returned = "raised"],
                  strip |-> "progress",
                  files |-> checked.files]
            ELSE [trace |-> [fetched EXCEPT !.returned = "True"],
                  strip |-> "off",
                  files |-> checked.files]

\* CountdownApplication.startup() on the files fs: its trace, what it leaves
\* on the strip and the files afterwards. It returns True or False, or the
\* update check reboots the device, or CountdownState.__init__ raises.
CountdownApplication_startup(fs, env) ==
    IF ~env.wifi THEN StartupFailed(NoStartup, "wifi", fs)
    ELSE LET connected == [NoStartup EXCEPT !.wifi = TRUE]
             checked   == IF env.temp_settings /\ env.update.auto_update
                          THEN check_and_update(fs, VersionStr(VERSION), TRUE,
                                                env.update.remote, env.update.io)
                          ELSE [files |-> fs, returned |-> "False",
                                downloaded |-> FALSE]
             zoned     == [connected EXCEPT !.timezone = TRUE]
             offset    == [zoned EXCEPT !.timezone_offset = TRUE]
             dated     == [offset EXCEPT !.local_date = TRUE]
             synced    == [dated EXCEPT !.ntp = env.ntp]
             fetched   == [synced EXCEPT !.settings = TRUE]
         IN IF checked.returned = "reset"
            THEN [trace |-> [connected EXCEPT !.returned = "reset"],
                  strip |-> "update",
                  files |-> checked.files]
            ELSE IF ~env.timezone
            THEN StartupFailed(connected, "timezone", checked.files)
            ELSE IF ~env.timezone_offset.ok
            THEN StartupFailed(zoned, "timezone_offset", checked.files)
            ELSE IF ~env.local_date.ok
            THEN StartupFailed(offset, "local_date", checked.files)
            ELSE IF ~env.settings.ok
            THEN StartupFailed(synced, "settings", checked.files)
            ELSE IF CountdownStateRaises(env.settings.value)
            THEN [trace |-> [fetched EXCEPT !.returned = "raised"],
                  strip |-> "progress",
                  files |-> checked.files]
            ELSE [trace |-> [fetched EXCEPT !.returned = "True"],
                  strip |-> "off",
                  files |-> checked.files]

\* The state after CountdownApplication.__init__.
BootInit ==
    /\ pc = "boot"
    /\ consecutive_dark_count = 0
    /\ consecutive_light_count = 0
    /\ consecutive_needed = CONSECUTIVE_READINGS_NEEDED
    /\ objects = <<>>
    /\ countdown_state = NoObject
    /\ animation_engine = NewAnimationEngine(NoObject)
    /\ timezone_offset = NoOffset
    /\ strip = "off"
    /\ tick = NoTick
    /\ ticks = 0
    /\ horizon = BootTicks
    /\ samples = <<>>
    /\ np = <<>>
    /\ num_pixels = 0
    /\ led = NoCall
    /\ util = NoUtilCall
    /\ ticks_ms = 0
    /\ files = DeviceFiles
    /\ startup = NoStartup

\* main(), lines 1048-1055: startup(), and then run() if it returned True,
\* the idle loop (pc = "halted") if it returned False; the program has ended
\* if the device was reset or startup raised.
Startup ==
    /\ pc = "boot"
    /\ \E env \in BootEnvironments :
         LET r == CountdownApplication_startup(files, env)
         IN /\ startup' = r.trace
            /\ strip' = r.strip
            /\ files' = r.files
            /\ pc' = IF r.trace.returned = "True" THEN "loop"
                     ELSE IF r.trace.returned = "False" THEN "halted"
                     ELSE IF r.trace.returned = "reset" THEN "reset"
                     ELSE "crashed"
            /\ timezone_offset' = IF r.trace.timezone_offset
                                  THEN env.timezone_offset.value ELSE NoOffset
            /\ IF r.trace.returned = "True"
               THEN /\ objects' = [o \in {0} |->
                                     NewCountdownState(env.local_date.value,
                                                       env.settings.value,
                                                       env.base_color, ClockAt(0))]
                    /\ countdown_state' = 0
                    /\ animation_engine' = NewAnimationEngine(0)
               ELSE UNCHANGED <<objects, countdown_state, animation_engine>>
    /\ UNCHANGED <<consecutive_dark_count, consecutive_light_count,
                   consecutive_needed, tick, ticks, horizon, samples, np,
                   num_pixels, led, util, ticks_ms>>

BootNext == Startup \/ Tick \/ SleepAfterError

BootSpec == BootInit /\ [][BootNext]_vars

\* ------------------------------------------------------------------------
\* The block layout on its own: the pixel span _render_countdown computes
\* for one day index, for strips longer than those rendered above
\* ------------------------------------------------------------------------

\* <<num_pixels, countdown_length>> with 1 <= countdown_length <= num_pixels.
LayoutSamples ==
    { nl \in (1 .. MaxStrip) \X (1 .. MaxStrip) : nl[2] <= nl[1] }

SpanInit ==
    /\ pc = "span"
    /\ consecutive_dark_count = 0
    /\ consecutive_light_count = 0
    /\ consecutive_needed = CONSECUTIVE_READINGS_NEEDED
    /\ objects = <<>>
    /\ countdown_state = 0
    /\ animation_engine = NewAnimationEngine(0)
    /\ timezone_offset = 0
    /\ strip = "off"
    /\ tick = NoTick
    /\ ticks = 0
    /\ horizon = 0
    /\ samples = <<>>
    /\ np = <<>>
    /\ num_pixels = 0
    /\ led = NoCall
    /\ util = NoUtilCall
    /\ ticks_ms = 0
    /\ files = DeviceFiles
    /\ startup = NoStartup

\* The span of one day index, as one iteration of the day loop computes it.
ComputeSpan ==
    /\ pc = "span"
    /\ \E nl \in LayoutSamples, from_pi \in BOOLEAN :
         \E day_index \in (0 - MaxLength) .. nl[2] :
            util' = [fn     |-> "BlockSpan",
                     args   |-> <<nl[1], nl[2], from_pi, day_index>>,
                     result |-> BlockSpan(nl[1], nl[2], from_pi, day_index)]
    /\ pc' = "returned"
    /\ UNCHANGED <<consecutive_dark_count, consecutive_light_count,
                   consecutive_needed, objects, countdown_state, animation_engine,
                   timezone_offset, strip, tick, ticks, horizon, samples, np,
                   num_pixels, led, ticks_ms, files, startup>>

SpanNext == ComputeSpan

SpanSpec == SpanInit /\ [][SpanNext]_vars

\* ------------------------------------------------------------------------
\* Properties
\* ------------------------------------------------------------------------

\* The CountdownState in use.
Current == objects[countdown_state]

\* The last iteration completed a render: render() ran to its led.write().
Rendered == tick.strip_op = "render" /\ tick.raised # "render"

\* The last iteration cleared the strip.
Cleared == tick.strip_op = "clear"

\* C1: on every tick whose adjusted time is outside the active time window
\* the strip is cleared and no render happens, whatever the debouncer
\* reports.
C1_OutsideWindowBlanks ==
    (tick.timed /\ ~tick.in_time_range) =>
        /\ Cleared
        /\ strip = "off"
        /\ tick.render_state = -1
        /\ tick.raised = "none"

\* C1 witness: a tick outside the window on which the debouncer reports
\* consistently dark, and the strip is off.
C1_Witness ==
    /\ tick.timed /\ ~tick.in_time_range
    /\ tick.consistent_dark
    /\ consecutive_dark_count >= consecutive_needed
    /\ strip = "off"

\* C2: on a tick inside the active time window the strip is rendered iff the
\* debouncer reports consistently dark, cleared iff it reports consistently
\* light, and left untouched when neither flag is set.
C2_InsideWindowDisplay ==
    (tick.timed /\ tick.in_time_range) =>
        /\ Rendered <=> tick.consistent_dark
        /\ Cleared <=> tick.consistent_light
        /\ (~tick.consistent_dark /\ ~tick.consistent_light) => tick.strip_op = "none"

\* C3: a rollover (_refresh_settings) is attempted on a tick iff the
\* debouncer reports consistently light and the time is inside the active
\* window.
C3_RolloverIffLightInWindow ==
    (tick.refresh # "none") <=>
        /\ tick.timed /\ tick.in_time_range
        /\ tick.consistent_light
        /\ consecutive_light_count >= consecutive_needed

\* C3 witness: a rollover attempted on a tick in the window with the
\* debouncer consistently light.
C3_Witness ==
    /\ tick.refresh = "done"
    /\ tick.in_time_range
    /\ consecutive_light_count >= consecutive_needed

\* C4: every render reads the controller's current, fully constructed
\* CountdownState (animation_engine.state is countdown_state), and a tick
\* that performs a rollover does not also render.
C4_RenderUsesCurrentState ==
    /\ animation_engine.state = countdown_state
    /\ countdown_state \in DOMAIN objects
    /\ DOMAIN Current = DOMAIN NewCountdownState(<<2024, 1, 1>>,
                                   CHOOSE st \in SettingsSamples : ~CountdownStateRaises(st),
                                   <<1, 1, 1>>, 0)
    /\ tick.strip_op = "render" =>
          /\ tick.render_state = countdown_state
          /\ tick.refresh = "none"

\* C4 witness: a render that reads a CountdownState built by a rollover.
C4_Witness ==
    /\ tick.strip_op = "render"
    /\ tick.render_state = countdown_state
    /\ countdown_state > 0

\* C5: when the date fetch or the settings fetch of a rollover fails, the
\* previous CountdownState and its engine are kept as they were (the
\* rollover resets nothing: the state is what the tick's own phase advance
\* left) and stay the ones in use.
C5_FailedFetchKeepsState ==
    [][(ticks' = ticks + 1 /\ tick'.refresh \in {"date_failed", "settings_failed"}) =>
          /\ countdown_state' = countdown_state
          /\ animation_engine' = animation_engine
          /\ objects' = [objects EXCEPT ![countdown_state] =
                            update_flash_phase(update_animation_phase(Current),
                                               ClockAt(ticks + 1))]
          /\ objects'[countdown_state'].days_remaining = Current.days_remaining
          /\ objects'[countdown_state'].countdown_length = Current.countdown_length
          /\ objects'[countdown_state'].base_color = Current.base_color
          /\ objects'[countdown_state'].settings = Current.settings]_vars

\* C5 witness: a rollover whose settings fetch failed, on a state that has
\* been in use for at least the debounce time.
C5_Witness ==
    /\ tick.refresh = "settings_failed"
    /\ Current.animation_phase >= CONSECUTIVE_READINGS_NEEDED * ANIMATION_SPEED

\* C6: a fetched configuration whose countdown length is <= 0 or whose
\* target date is before its start date is rejected, so a rollover never
\* installs one: the state in use has countdown length >= 1 and a target
\* date not before its start date.
C6_InvalidConfigurationRejected ==
    tick.refresh = "done" =>
        /\ Current.countdown_length >= 1
        /\ days_between(string_to_date_tuple(Current.settings.start_from_day),
                        Current.settings.important_date) >= 0

\* C7: the main loop never halts: whatever happens in an iteration (an error
\* included), the next iteration eventually runs (up to the explored number
\* of iterations).
C7_NextTickRuns ==
    /\ [](pc \in {"loop", "sleep"})
    /\ [](tick.raised # "none" => <>(pc = "loop"))
    /\ <>(ticks = horizon)

\* C7 witness: an iteration raised inside render, the error was caught and
\* control is back at the top of the loop.
C7_Witness ==
    /\ tick.raised = "render"
    /\ pc = "loop"

\* C8: at most one of the two counters is nonzero, and each update sets the
\* opposite counter to zero and increments the matching one by exactly one.
C8_CountersExclusive ==
    /\ [](consecutive_dark_count = 0 \/ consecutive_light_count = 0)
    /\ [][samples' # samples =>
            IF samples'[Len(samples')] > LDR_THRESHOLD
            THEN /\ consecutive_dark_count' = consecutive_dark_count + 1
                 /\ consecutive_light_count' = 0
            ELSE /\ consecutive_light_count' = consecutive_light_count + 1
                 /\ consecutive_dark_count' = 0]_vars

\* C8 witness: a light sample after a run of dark ones.
C8_Witness ==
    /\ Len(samples) >= 3
    /\ samples[Len(samples) - 1] > LDR_THRESHOLD
    /\ samples[Len(samples)] <= LDR_THRESHOLD
    /\ consecutive_light_count = 1
    /\ consecutive_dark_count = 0

\* The last n readings exist and are all dark (all light).
LastAllDark(n) ==
    /\ Len(samples) >= n
    /\ \A i \in (Len(samples) - n + 1) .. Len(samples) : samples[i] > LDR_THRESHOLD

LastAllLight(n) ==
    /\ Len(samples) >= n
    /\ \A i \in (Len(samples) - n + 1) .. Len(samples) : samples[i] <= LDR_THRESHOLD

\* A sequence of n readings equal to v.
Repeat(v, n) == [i \in 1 .. n |-> v]

\* C9: with threshold N and counters started at zero, update returns
\* consistentDark exactly when the N most recent samples were all dark, and
\* consistentLight exactly when they were all light; with N = 25: 24 dark
\* then one light gives consistentDark false, 25 dark give it true, and the
\* next light sample gives both flags false.
C9_ConsistentIffLastN ==
    tick.sampled =>
        /\ tick.consistent_dark <=> LastAllDark(consecutive_needed)
        /\ tick.consistent_light <=> LastAllLight(consecutive_needed)
        /\ (consecutive_needed = 25
              /\ samples = Repeat(LDR_THRESHOLD + 1, 24) \o <<LDR_THRESHOLD>>)
               => ~tick.consistent_dark
        /\ (consecutive_needed = 25 /\ samples = Repeat(LDR_THRESHOLD + 1, 25))
               => tick.consistent_dark
        /\ (consecutive_needed = 25
              /\ samples = Repeat(LDR_THRESHOLD + 1, 25) \o <<LDR_THRESHOLD>>)
               => (~tick.consistent_dark /\ ~tick.consistent_light)

\* C9 witness: threshold 25, 25 dark samples and then a light one.
C9_Witness ==
    /\ consecutive_needed = 25
    /\ samples = Repeat(LDR_THRESHOLD + 1, 25) \o <<LDR_THRESHOLD>>
    /\ ~tick.consistent_dark /\ ~tick.consistent_light

\* C10: while the time stays inside the window and the samples stay dark,
\* every tick from the N-th consecutive dark sample on renders the strip.
C10_RendersEveryDarkTick ==
    (tick.timed /\ tick.in_time_range
        /\ consecutive_dark_count >= consecutive_needed) => Rendered

\* C11: a sensor fault (the raw read failing on a tick) is treated as exactly
\* one light sample: on that tick the consecutive-dark counter is reset to 0
\* and the consecutive-light counter is incremented by one.
C11_FaultIsOneLightSample ==
    [][(ticks' = ticks + 1 /\ tick'.raised = "light_sensor.update") =>
          /\ consecutive_dark_count' = 0
          /\ consecutive_light_count' = consecutive_light_count + 1]_vars

\* The CountdownState the engine renders, and its settings.
Drawn == objects[animation_engine.state]

\* The last call was a render() that ran to its led.write().
RenderCompleted == led.op = "render" /\ led.raised = "none"

\* The pixel span of a day index on the strip in use.
SpanOf(day_index) ==
    SpanPixels(BlockSpan(num_pixels, Drawn.countdown_length,
                         Drawn.settings.from_pi, day_index))

\* The day indices the last countdown render iterated over.
DrawnDays == { day_range(Drawn)[k] : k \in 1 .. Len(day_range(Drawn)) }

\* C12: a malformed colour string in the configuration does not abort a
\* render: the render of that tick completes and is written to the strip
\* (with a default in place of the colour).
C12_MalformedColourDefaults ==
    (/\ led.op = "render"
     /\ Drawn.countdown_length >= 1
     /\ \/ ~Drawn.settings.primary_color.ok
        \/ ~Drawn.settings.secondary_color.ok
        \/ ~Drawn.settings.marker_color.ok)
        => (led.written /\ led.raised = "none")

\* C13: render selects countdown mode exactly when days_remaining <=
\* countdown_length and breathing mode otherwise, renders exactly one of the
\* two, and then writes the strip once.
C13_ModeSelectedAndWritten ==
    led.op = "render" =>
        /\ led.mode = "countdown" <=> Drawn.days_remaining <= Drawn.countdown_length
        /\ led.mode = "breathing" <=> Drawn.days_remaining > Drawn.countdown_length
        /\ led.written
        /\ strip = led.mode

\* C14: when days_remaining is negative (the target date has passed) a
\* render selects breathing mode, for every countdown_length >= 1.
C14_PastTargetBreathes ==
    (Rendered /\ Current.days_remaining < 0 /\ Current.countdown_length >= 1)
        => strip = "breathing"

\* The day blocks (day indices 1 .. countdown_length) whose every pixel the
\* fill loop of the last render wrote, and those it wrote no pixel of.
FilledBlocks ==
    { d \in 1 .. Drawn.countdown_length : SpanOf(d) # {} /\ SpanOf(d) \subseteq led.fills }

UnfilledBlocks ==
    { d \in 1 .. Drawn.countdown_length : SpanOf(d) \cap led.fills = {} }

\* C15: in countdown mode with reverse off and 0 <= days_remaining <=
\* countdown_length, one render fills exactly countdown_length -
\* days_remaining day blocks and leaves the other days_remaining unfilled.
C15_FillsElapsedBlocks ==
    (/\ RenderCompleted /\ led.mode = "countdown"
     /\ ~Drawn.settings.is_reverse
     /\ 0 <= Drawn.days_remaining
     /\ 1 <= Drawn.countdown_length /\ Drawn.countdown_length <= num_pixels)
        => /\ Cardinality(FilledBlocks) = Drawn.countdown_length - Drawn.days_remaining
           /\ Cardinality(UnfilledBlocks) = Drawn.days_remaining

\* The spans of the day blocks 1 .. countdown_length on a strip of n pixels:
\* blocks 2 .. countdown_length have floor(n / countdown_length) pixels, the
\* blocks are pairwise disjoint and together they are all the pixels.
SpansPartition(n, countdown_length, from_pi) ==
    LET span(d) == SpanPixels(BlockSpan(n, countdown_length, from_pi, d))
    IN /\ \A d \in 2 .. countdown_length :
             Cardinality(span(d)) = n \div countdown_length
       /\ \A d, e \in 1 .. countdown_length : d # e => span(d) \cap span(e) = {}
       /\ UNION { span(d) : d \in 1 .. countdown_length } = 0 .. (n - 1)
       /\ Cardinality(span(1)) = (n \div countdown_length) + (n % countdown_length)

\* C16: for every strip length N and countdown length L with 1 <= L <= N and
\* either orientation, the span of each day index 2 .. L has floor(N / L)
\* pixels, the spans of day indices 1 .. L are pairwise disjoint and their
\* union is every pixel 0 .. N-1 (day index 1 absorbs the remainder); so a
\* render that draws every day index 1 .. L fills every pixel, each once per
\* block. With 100 pixels and L = 10 each block has 10 pixels.
C16_BlocksPartitionStrip ==
    /\ (1 <= Drawn.countdown_length /\ Drawn.countdown_length <= num_pixels)
          => /\ SpansPartition(num_pixels, Drawn.countdown_length,
                               Drawn.settings.from_pi)
             /\ (RenderCompleted /\ led.mode = "countdown"
                   /\ (1 .. Drawn.countdown_length) \subseteq DrawnDays)
                  => led.fills = 0 .. (num_pixels - 1)
    /\ \A from_pi \in BOOLEAN : SpansPartition(100, 10, from_pi)

\* C16 witness: a render that drew every day block of a strip whose length
\* is not a multiple of the countdown length.
C16_Witness ==
    /\ RenderCompleted /\ led.mode = "countdown"
    /\ 2 <= Drawn.countdown_length /\ Drawn.countdown_length <= num_pixels
    /\ num_pixels % Drawn.countdown_length # 0
    /\ (1 .. Drawn.countdown_length) \subseteq DrawnDays
    /\ led.fills = 0 .. (num_pixels - 1)

\* C17: after a countdown render with markers enabled in which at least one
\* day block is drawn (countdown_length <= num_pixels), the first pixel of
\* every block whose day is not drawn in that render holds the marker colour.
C17_UndrawnBlocksMarked ==
    (/\ RenderCompleted /\ led.mode = "countdown"
     /\ Drawn.settings.with_marker
     /\ 1 <= Drawn.countdown_length /\ Drawn.countdown_length <= num_pixels
     /\ DrawnDays \cap (1 .. Drawn.countdown_length) # {})
        => \A d \in (1 .. Drawn.countdown_length) \ DrawnDays :
              get_pixel(np, BlockSpan(num_pixels, Drawn.countdown_length,
                                      Drawn.settings.from_pi, d)[1])
                  = string_to_rgb(Drawn.settings.marker_color)

\* The pixel the marker pass marks for the block of a day index: the first
\* pixel of the block, except that the edge block (day index 1) of a strip
\* laid out from its end is marked at pixel num_pixels mod countdown_length,
\* the first of its last floor(num_pixels / countdown_length) pixels.
MarkerPixel(day_index) ==
    IF day_index = 1 /\ ~Drawn.settings.from_pi
    THEN num_pixels % Drawn.countdown_length
    ELSE BlockSpan(num_pixels, Drawn.countdown_length, Drawn.settings.from_pi,
                   day_index)[1]

\* C17 as amended: after a countdown render with markers enabled in which at
\* least one day block is drawn (countdown_length <= num_pixels), every
\* block whose day is not drawn in that render holds the marker colour at
\* its first pixel, the edge block of a strip laid out from its end at pixel
\* num_pixels mod countdown_length instead.
C17_UndrawnBlocksMarkedAtSlot ==
    (/\ RenderCompleted /\ led.mode = "countdown"
     /\ Drawn.settings.with_marker
     /\ 1 <= Drawn.countdown_length /\ Drawn.countdown_length <= num_pixels
     /\ DrawnDays \cap (1 .. Drawn.countdown_length) # {})
        => \A d \in (1 .. Drawn.countdown_length) \ DrawnDays :
              /\ MarkerPixel(d) \in led.marks
              /\ get_pixel(np, MarkerPixel(d))
                    = string_to_rgb(Drawn.settings.marker_color)

\* C17 witness: a render of a 3-pixel strip laid out from its end with two
\* blocks, of which the edge block is not drawn: pixel 1 holds the marker
\* colour and pixel 0, the first pixel of the edge block, does not.
C17_Witness ==
    /\ RenderCompleted /\ led.mode = "countdown"
    /\ Drawn.settings.with_marker /\ ~Drawn.settings.from_pi
    /\ Drawn.countdown_length = 2 /\ num_pixels % 2 = 1
    /\ DrawnDays = {2}
    /\ get_pixel(np, 1) = string_to_rgb(Drawn.settings.marker_color)
    /\ get_pixel(np, 0) # string_to_rgb(Drawn.settings.marker_color)

\* An index outside 0 .. num_pixels - 1.
OutOfRange(index) == index < 0 \/ index >= num_pixels

\* C18: set_pixel at an index outside 0 .. num_pixels-1 leaves the buffer
\* unchanged and raises nothing, get_pixel at such an index returns the off
\* colour; so no render fails or writes outside the buffer because of a
\* pixel index: the buffer keeps its num_pixels entries, and a render
\* changes only pixels of the buffer that its loops handed to set_pixel.
C18_OutOfRangeIgnored ==
    /\ [](Len(np) = num_pixels)
    /\ [](led.raised \in {"none", "string_to_rgb", "ZeroDivisionError"})
    /\ []((led.op = "get_pixel" /\ OutOfRange(led.index)) => led.result = COLOR_OFF)
    /\ [][(ticks' = ticks + 1 /\ led'.op = "set_pixel") =>
            /\ led'.raised = "none"
            /\ OutOfRange(led'.index) => np' = np
            /\ ~OutOfRange(led'.index) =>
                  \A i \in 0 .. (num_pixels - 1) :
                     i # led'.index => get_pixel(np', i) = get_pixel(np, i)]_vars
    /\ [][(ticks' = ticks + 1 /\ led'.op = "render") =>
            \A i \in 0 .. (num_pixels - 1) :
               i \notin (led'.fills \cup led'.marks)
                   => get_pixel(np', i) = get_pixel(np, i)]_vars

\* C18 witness: a render of a strip that is not off whose marker pass handed
\* set_pixel the index num_pixels (more blocks than pixels), ran to its end
\* and left the pixels it did not fill as they were.
C18_Witness ==
    /\ RenderCompleted
    /\ num_pixels \in led.marks
    /\ Len(np) = num_pixels
    /\ \E i \in 0 .. (num_pixels - 1) :
          i \notin led.fills /\ get_pixel(np, i) = <<155, 155, 0>>

\* Minutes since midnight of <<hour, minute>>.
Minutes(hm) == hm[1] * 60 + hm[2]

\* C19: is_within_time_range(start, end, current), all taken as minutes of
\* the day, is start <= current <= end when start <= end and (current >=
\* start or current <= end) when start > end: current is among the minutes
\* met going forward from start to end, around midnight if need be. Window
\* 22:00-06:00 contains 23:30 and does not contain 12:00.
C19_TimeRangeWraps ==
    util.fn = "is_within_time_range" =>
        LET start   == Minutes(util.args[1].hm)
            end     == Minutes(util.args[2].hm)
            current == Minutes(util.args[3])
        IN /\ start <= end => (util.result <=> (start <= current /\ current <= end))
           /\ start > end => (util.result <=> (current >= start \/ current <= end))
           /\ util.result <=> ((current - start) % 1440 <= (end - start) % 1440)
           /\ (util.args[1] = TimeStr(22, 0) /\ util.args[2] = TimeStr(6, 0)
                 /\ util.args[3] = <<23, 30>>) => util.result = TRUE
           /\ (util.args[1] = TimeStr(22, 0) /\ util.args[2] = TimeStr(6, 0)
                 /\ util.args[3] = <<12, 0>>) => util.result = FALSE

\* C19 witness: the call with window 22:00-06:00 at 23:30, which is inside.
C19_Witness ==
    /\ util.fn = "is_within_time_range"
    /\ util.args = <<TimeStr(22, 0), TimeStr(6, 0), <<23, 30>>>>
    /\ util.result = TRUE

\* The number of the day of a date, counted month by month from the table of
\* month lengths and the leap-year rule.
IsLeapYear(y) == (y % 4 = 0 /\ y % 100 # 0) \/ y % 400 = 0

DaysInMonth(y, m) ==
    IF m = 2 THEN (IF IsLeapYear(y) THEN 29 ELSE 28)
    ELSE IF m \in {4, 6, 9, 11} THEN 30 ELSE 31

RECURSIVE DaysBeforeMonth(_, _)
DaysBeforeMonth(y, m) ==
    IF m = 1 THEN 0 ELSE DaysBeforeMonth(y, m - 1) + DaysInMonth(y, m - 1)

RECURSIVE DaysBeforeYear(_)
DaysBeforeYear(y) ==
    IF y = 2000 THEN 0
    ELSE DaysBeforeYear(y - 1) + (IF IsLeapYear(y - 1) THEN 366 ELSE 365)

DayNumber(ymd) == DaysBeforeYear(ymd[1]) + DaysBeforeMonth(ymd[1], ymd[2]) + ymd[3]

\* date1 is not after date2.
NotAfter(date1, date2) ==
    \/ date1[1] < date2[1]
    \/ date1[1] = date2[1] /\ date1[2] < date2[2]
    \/ date1[1] = date2[1] /\ date1[2] = date2[2] /\ date1[3] <= date2[3]

\* C20: for valid dates D1 <= D2, days_between(D1, D2) >= 0 and
\* days_between(D2, D1) = -days_between(D1, D2), across month ends, year
\* ends and leap days; the result is the number of calendar days from D1 to
\* D2.
C20_DaysBetweenAntisymmetric ==
    util.fn = "days_between" =>
        LET D1 == util.args[1]
            D2 == util.args[2]
        IN /\ NotAfter(D1, D2) => util.result >= 0
           /\ days_between(D2, DateStr(D1[1], D1[2], D1[3])) = -util.result
           /\ util.result = DayNumber(D2) - DayNumber(D1)

\* C20 witness: the call from 2023-12-31 to 2024-03-01, across a year end
\* and a leap day: 61 days.
C20_Witness ==
    /\ util.fn = "days_between"
    /\ util.args = <<<<2023, 12, 31>>, <<2024, 3, 1>>>>
    /\ util.result = 61

\* C21: for every integer v, clamp(v) is v when 0 <= v <= 255, 0 when v < 0
\* and 255 when v > 255 (clamp(300) = 255, clamp(-5) = 0, clamp(127) = 127),
\* and clamping the value clamp returned gives that value again.
C21_ClampSaturates ==
    /\ pc \in {"clamped", "reclamped"} =>
          LET v == util.args[1]
          IN /\ (0 <= v /\ v <= 255) => util.result = v
             /\ v < 0 => util.result = 0
             /\ v > 255 => util.result = 255
             /\ v = 300 => util.result = 255
             /\ v = 0 - 5 => util.result = 0
             /\ v = 127 => util.result = 127
    /\ pc = "reclamped" => util.result = util.args[1]

\* clamp returned 255 (for a value of 255 or more) and was called again on
\* what it returned.
C21_Witness ==
    /\ pc = "reclamped"
    /\ util.args = <<255>>
    /\ util.result = 255

\* Distance between two phases on the circle of circumference 2 * pi.
PhaseDistance(a, b) ==
    LET d == (a - b) % TwoPi
    IN IF d <= TwoPi - d THEN d ELSE TwoPi - d

\* C22: starting from phase 0, 126 consecutive phase advances with step 0.05
\* bring the animation phase back to its starting value up to floating-point
\* tolerance (taken here as generously as the fixed-point grid allows: one
\* unit, 0.0001 rad, on either side of the starting value).
C22_PhaseReturnsAfter126 ==
    (pc \in {"phase", "flash"} /\ ticks = 126) =>
        PhaseDistance(Current.animation_phase, 0) <= 1

\* C22, amended: starting from phase 0, 126 consecutive phase advances with
\* step 0.05 wrap the phase exactly once and leave it at 126 * 0.05 - 2 * pi
\* (about 0.0168 rad): within one step of its starting value, and not
\* within floating-point tolerance of it.
C22_PhaseWithinOneStepAfter126 ==
    /\ (pc \in {"phase", "flash"} /\ ticks <= 125) =>
          Current.animation_phase = ticks * ANIMATION_SPEED
    /\ (pc \in {"phase", "flash"} /\ ticks = 126) =>
          /\ Current.animation_phase = 126 * ANIMATION_SPEED - TwoPi
          /\ Current.animation_phase > 1
          /\ Current.animation_phase < ANIMATION_SPEED

\* update_animation_phase has been called 126 times on a fresh state.
C22_Witness ==
    /\ pc = "flash"
    /\ ticks = 126
    /\ Current.animation_phase = 168

\* The phase one step after p, the wrap written as a subtraction.
OneStepAfter(p) ==
    IF p + ANIMATION_SPEED >= TwoPi THEN p + ANIMATION_SPEED - TwoPi
    ELSE p + ANIMATION_SPEED

\* C23: the animation phase satisfies 0 <= phase < 2 * pi in every reachable
\* state, and every tick advances it by exactly one step (0.05, modulo
\* 2 * pi), whatever the tick goes on to do: render, blank the strip, find the
\* time outside the window, or raise. (A tick that ends in a successful
\* rollover leaves the freshly built state, whose phase is 0.)
C23_PhaseAdvancesEveryTick ==
    /\ [](\A o \in DOMAIN objects :
            /\ 0 <= objects[o].animation_phase
            /\ objects[o].animation_phase < TwoPi)
    /\ [][ticks' = ticks + 1 =>
            IF tick'.refresh = "done"
            THEN objects'[countdown_state'].animation_phase = 0
            ELSE /\ countdown_state' = countdown_state
                 /\ objects'[countdown_state'].animation_phase
                        = OneStepAfter(Current.animation_phase)]_vars

\* The 126th tick since the state was built found the time outside the
\* window and blanked the strip, and the phase wrapped on it.
C23_Witness ==
    /\ ticks = 126
    /\ countdown_state = 0
    /\ tick.timed /\ ~tick.in_time_range
    /\ tick.strip_op = "clear"
    /\ Current.animation_phase = 168

\* Milliseconds from the clock reading last to the later reading now, the
\* wrap of the counter undone (less than one period of it has passed).
ElapsedMs(now, last) == (now - last + TicksPeriod) % TicksPeriod

C25_ConstructionResetsPhases ==
    (pc \in {"loop", "sleep"} /\ (ticks = 0 \/ tick.refresh = "done")) =>
        LET target == string_to_date_tuple(Current.settings.important_date)
            start  == string_to_date_tuple(Current.settings.start_from_day)
            length == DayNumber(target) - DayNumber(start)
        IN /\ DOMAIN objects = {countdown_state}
           /\ Current.animation_phase = 0
           /\ Current.swap_phase = FALSE
           /\ Current.days_remaining
                  = DayNumber(target) - DayNumber(Current.current_date)
           /\ Current.countdown_length = (IF length < 0 THEN 0 - length ELSE length)

\* A rollover has replaced a state that had been advanced and swapped by a
\* state built for 2024-02-28, two days (over the leap day) before a target
\* that lies before its start date.
C25_Witness ==
    /\ tick.refresh = "done"
    /\ ticks >= CONSECUTIVE_READINGS_NEEDED
    /\ countdown_state = ticks
    /\ Current.current_date = <<2024, 2, 28>>
    /\ Current.days_remaining = 2
    /\ Current.countdown_length = 2

\* C26: between two rollovers, ticks change only the animation phase, the
\* swap-phase and the last-swap time of the CountdownState: a tick without a
\* successful rollover (one that renders, blanks, raises, or whose rollover
\* fails) leaves the same object in use with its current date, days_remaining,
\* countdown_length, base colour and configuration as they were, and so does
\* the pause after a tick that raised.
C26_TicksKeepDayFields ==
    [][IF ticks' = ticks + 1 /\ tick'.refresh = "done"
       THEN countdown_state' # countdown_state
       ELSE /\ countdown_state' = countdown_state
            /\ animation_engine' = animation_engine
            /\ DOMAIN objects' = DOMAIN objects
            /\ [objects'[countdown_state'] EXCEPT
                   !.animation_phase = Current.animation_phase,
                   !.swap_phase = Current.swap_phase,
                   !.last_swap_ms = Current.last_swap_ms] = Current]_vars

\* A tick whose rollover failed in the constructor kept the state built at
\* startup, which ticks have advanced and swapped since.
C26_Witness ==
    /\ tick.refresh = "raised"
    /\ countdown_state = 0
    /\ Current.swap_phase
    /\ Current.animation_phase > 0
    /\ Current.last_swap_ms > 0

\* The pixels of the block of a drawn day that no day drawn after it (a
\* smaller day index) has drawn over.
VisiblePixels(d) ==
    SpanOf(d) \ UNION { SpanOf(e) : e \in { x \in DrawnDays : x < d } }

\* Colour c is the colour base or a brighter shade of it: every channel at
\* least that of base and at most 1.35 times it.
IsShadeOf(c, base) ==
    \A ch \in 1 .. 3 : base[ch] <= c[ch] /\ c[ch] * 100 <= base[ch] * 135

\* C27: with custom colours enabled, the block of a drawn day index d has the
\* primary colour (or its lightened shade) when "d is even" differs from
\* swap-phase, and the secondary colour (or its lightened shade) otherwise;
\* the same render with swap-phase toggled gives every filled pixel the other
\* of the two colours.
C27_CustomColoursAlternate ==
    (/\ pc = "render" /\ RenderCompleted /\ led.mode = "countdown"
     /\ Drawn.settings.use_custom_colors) =>
        LET primary   == string_to_rgb(Drawn.settings.primary_color)
            secondary == string_to_rgb(Drawn.settings.secondary_color)
            toggled   == render(NewPixels(num_pixels),
                                [Drawn EXCEPT !.swap_phase = ~@], "plus")
        IN /\ \A d \in DrawnDays : \A p \in VisiblePixels(d) :
                  IF (d % 2 = 0) # Drawn.swap_phase
                  THEN IsShadeOf(get_pixel(np, p), primary)
                  ELSE IsShadeOf(get_pixel(np, p), secondary)
           /\ toggled.fills = led.fills
           /\ \A p \in led.fills :
                  IsShadeOf(get_pixel(np, p), primary)
                      <=> IsShadeOf(get_pixel(toggled.np, p), secondary)

\* A render with custom colours and swap-phase set drew an odd and an even
\* day: the odd day's block is in a shade of the primary colour, the even
\* day's in a shade of the secondary colour.
C27_Witness ==
    /\ pc = "render" /\ RenderCompleted /\ led.mode = "countdown"
    /\ Drawn.settings.use_custom_colors
    /\ Drawn.swap_phase
    /\ \E d \in DrawnDays, e \in DrawnDays :
          /\ d % 2 = 1 /\ e % 2 = 0
          /\ VisiblePixels(d) # {} /\ VisiblePixels(e) # {}
          /\ \A p \in VisiblePixels(d) :
                IsShadeOf(get_pixel(np, p), string_to_rgb(Drawn.settings.primary_color))
          /\ \A p \in VisiblePixels(e) :
                IsShadeOf(get_pixel(np, p), string_to_rgb(Drawn.settings.secondary_color))

\* The pixels of the block of a drawn day that no other drawn day covers.
OncePixels(d) ==
    SpanOf(d) \ UNION { SpanOf(e) : e \in DrawnDays \ {d} }

\* The colours the variation of lines 800-806 can make of the colour old, for
\* a variation of size k: one for each outcome of the two random draws.
DriftsOf(old, k) ==
    { <<clamp(old[1] + v1, 0, 255), clamp(old[2] - v1, 0, 255),
        clamp(old[3] + v2, 0, 255)>> : v1 \in {0 - k, k}, v2 \in {0 - k, k} }

\* sin(phase) >= 0, for a phase in [0, 2 * pi).
SinNonNegative(phase) == phase <= TwoPi \div 2

\* A colour on which a lighten factor of 1.1 or more shows: one channel has
\* room to grow.
CanBrighten(c) == \E ch \in 1 .. 3 : 10 <= c[ch] /\ c[ch] <= 230

\* C28: in one countdown render exactly one of the two block groups is
\* lightened: the primary group (d even, inverted by swap-phase) when
\* sin(phase) >= 0 and the secondary group otherwise. A pixel of a block of
\* the other group holds its colour unmodified (the configured colour, or the
\* pixel's previous colour after the random variation); a pixel of a block of
\* the lightened group holds that colour multiplied by the lighten factor,
\* which differs from it whenever the factor is 1.1 or more and the colour
\* can brighten. With and without custom colours.
C28_OneGroupLightened ==
    [][(/\ pc = "render" /\ led'.op = "render" /\ led'.raised = "none"
        /\ led'.mode = "countdown") =>
          LET st      == Drawn
              factor  == lighten_factor(st.animation_phase)
              primary_lit == SinNonNegative(st.animation_phase)
          IN \A d \in DrawnDays : \A p \in OncePixels(d) :
               LET is_primary == (d % 2 = 0) # st.swap_phase
                   bases == IF st.settings.use_custom_colors
                            THEN { IF is_primary
                                   THEN string_to_rgb(st.settings.primary_color)
                                   ELSE string_to_rgb(st.settings.secondary_color) }
                            ELSE DriftsOf(get_pixel(np, p),
                                          st.countdown_length + 1 - d)
                   now == get_pixel(np', p)
               IN IF is_primary <=> primary_lit
                  THEN /\ \E b \in bases : now = lighten(b, factor)
                       /\ (factor >= 11000 /\ \A b \in bases : CanBrighten(b))
                              => now \notin bases
                  ELSE now \in bases]_vars

\* A render without custom colours, at a phase with sin < 0 and swap-phase
\* set, of a strip that was filled with one colour: an even day's block
\* (secondary after the swap) came out brighter than the variation alone can
\* make it, an odd day's block did not.
C28_Witness ==
    /\ pc = "render" /\ RenderCompleted /\ led.mode = "countdown"
    /\ ticks = 1
    /\ ~Drawn.settings.use_custom_colors
    /\ Drawn.swap_phase
    /\ Drawn.animation_phase = 66 * ANIMATION_SPEED
    /\ \E d \in DrawnDays, e \in DrawnDays :
          /\ d % 2 = 0 /\ e % 2 = 1
          /\ OncePixels(d) # {} /\ OncePixels(e) # {}
          /\ \A p \in OncePixels(d) :
                get_pixel(np, p) \notin DriftsOf(<<155, 155, 0>>,
                                                 Drawn.countdown_length + 1 - d)
          /\ \A p \in OncePixels(e) :
                get_pixel(np, p) \in DriftsOf(<<155, 155, 0>>,
                                              Drawn.countdown_length + 1 - e)

\* The number of readings at the end of seq that are all dark (dark = TRUE)
\* or all light (dark = FALSE).
RECURSIVE RunLength(_, _)
RunLength(seq, dark) ==
    IF seq = <<>> \/ (seq[Len(seq)] > LDR_THRESHOLD) # dark THEN 0
    ELSE 1 + RunLength(SubSeq(seq, 1, Len(seq) - 1), dark)

\* C29: the debouncer's two counters are saturating: however many
\* consecutive samples of the same kind arrive, each counter stays at or
\* below a fixed maximum (which, whatever it is, is reached within the runs
\* explored: the counters stay below the longest run fed).
C29_CountersSaturate ==
    pc = "sensor" =>
        /\ consecutive_dark_count < MaxSamples
        /\ consecutive_light_count < MaxSamples

\* C29, amended: the debouncer's two counters are not saturating: each
\* counter is the number of samples in the current run of consecutive
\* samples of its kind, however long the run is and however far it exceeds
\* the threshold.
C29_CountersCountRuns ==
    pc = "sensor" =>
        /\ consecutive_dark_count = RunLength(samples, TRUE)
        /\ consecutive_light_count = RunLength(samples, FALSE)

\* MaxSamples dark samples in a row on a debouncer with threshold 1: the
\* counter has passed its threshold many times over.
C29_Witness ==
    /\ pc = "sensor"
    /\ consecutive_needed = 1
    /\ Len(samples) = MaxSamples
    /\ consecutive_dark_count = MaxSamples
    /\ tick.consistent_dark

\* The day indices from countdown_length down to days_remaining (reverse
\* off), or from days_remaining - 1 down to 0 (reverse on).
ClaimedDays ==
    IF ~Drawn.settings.is_reverse
    THEN Drawn.days_remaining .. Drawn.countdown_length
    ELSE 0 .. (Drawn.days_remaining - 1)

\* C30: in countdown mode the day indices drawn are exactly countdown_length
\* down to days_remaining when reverse is off, and exactly days_remaining - 1
\* down to 0 when reverse is on (largest first, each once, and the pixels
\* filled are the pixels of their blocks); so with reverse on and
\* days_remaining <= 0 the render draws no block and no marker and leaves the
\* pixel buffer as it was.
C30_DayRangeByDirection ==
    /\ []((pc = "render" /\ RenderCompleted /\ led.mode = "countdown") =>
            /\ DrawnDays = ClaimedDays
            /\ Len(day_range(Drawn)) = Cardinality(ClaimedDays)
            /\ \A k \in 1 .. (Len(day_range(Drawn)) - 1) :
                  day_range(Drawn)[k + 1] = day_range(Drawn)[k] - 1
            /\ led.fills = UNION { SpanOf(d) : d \in ClaimedDays })
    /\ [][(/\ pc = "render" /\ led'.op = "render"
            /\ Drawn.settings.is_reverse
            /\ Drawn.days_remaining <= 0
            /\ Drawn.days_remaining <= Drawn.countdown_length) =>
              /\ np' = np
              /\ led'.fills = {}
              /\ led'.marks = {}]_vars

\* A countdown render with reverse and markers on, on the day of the target
\* date, of a strip that was filled with one colour: it completed and the
\* strip still holds that colour on every pixel.
C30_Witness ==
    /\ pc = "render" /\ RenderCompleted /\ led.mode = "countdown"
    /\ ticks = 1
    /\ Drawn.settings.is_reverse
    /\ Drawn.settings.with_marker
    /\ Drawn.days_remaining = 0
    /\ Drawn.countdown_length >= 2
    /\ np = fill(NewPixels(num_pixels), <<155, 155, 0>>)

\* The pixels of the day blocks (day indices 1 .. countdown_length) that the
\* fill loop of the last render drew.
DrawnBlockPixels ==
    UNION { SpanOf(d) : d \in DrawnDays \cap (1 .. Drawn.countdown_length) }

\* C31: markers are put only on inactive blocks: after a countdown render
\* with markers enabled, no pixel of a day block that was drawn in that
\* render holds the marker colour because of the marker pass.
C31_MarkersOnlyOnInactiveBlocks ==
    (/\ RenderCompleted /\ led.mode = "countdown"
     /\ Drawn.settings.with_marker
     /\ 1 <= Drawn.countdown_length /\ Drawn.countdown_length <= num_pixels)
        => \A p \in DrawnBlockPixels :
              ~(/\ p \in led.marks
                /\ get_pixel(np, p) = string_to_rgb(Drawn.settings.marker_color))

\* Every channel of every pixel of the buffer is an integer in 0 .. 255.
ChannelsInRange ==
    \A i \in 1 .. Len(np) : \A c \in 1 .. 3 : np[i][c] \in 0 .. 255

RECURSIVE NewerVersion(_, _)
NewerVersion(a, b) ==
    IF a = <<>> \/ b = <<>> THEN a # <<>>
    ELSE IF a[1] # b[1] THEN a[1] > b[1]
    ELSE NewerVersion(Tail(a), Tail(b))

\* C33: check_and_update applies the update whenever auto-update is on and
\* the remote version is newer than the running version in dotted numeric
\* version order (remote 1.0.10 against running 1.0.9, say), and never
\* applies it when the remote version is equal or older or when auto-update
\* is off.
C33_UpdatesIffNumericallyNewer ==
    util.fn = "check_and_update" =>
        LET current     == util.args[1]
            auto_update == util.args[2]
            remote      == util.args[3]
        IN /\ (auto_update /\ remote.ok /\ NewerVersion(remote.parts, current))
                 => util.result.downloaded
           /\ (~auto_update \/ (remote.ok /\ ~NewerVersion(remote.parts, current)))
                 => ~util.result.downloaded

\* C34: the update is applied safely: main.py is replaced only by a download
\* that returned status 200, has at least 1000 characters and contains both
\* 'import network' and 'def main()'; and whenever _download_and_apply fails
\* at any step (download, validation, save, backup, remove or rename) and
\* returns False, a main.py file still exists on the device.
C34_UpdateAppliedSafely ==
    util.fn = "_download_and_apply" =>
        LET io == util.args[1]
        IN /\ files["main.py"] # RunningCode /\ files["main.py"] # Absent
                 => /\ io.get = "ok"
                    /\ files["main.py"] = io.content
                    /\ io.content.size >= 1000
                    /\ io.content.import_network /\ io.content.def_main
           /\ util.result.returned = "False" => files["main.py"] # Absent

\* The requests among the events of a fetcher call, and the events of a call
\* that made k attempts with a wait of 2 seconds between each two of them.
Requests(events) == { i \in 1 .. Len(events) : events[i][1] = "get" }

PacedAttempts(k) ==
    [i \in 1 .. (IF k = 0 THEN 0 ELSE 2 * k - 1) |->
        IF i % 2 = 1 THEN <<"get", (i + 1) \div 2>> ELSE <<"sleep", 2>>]

\* The fetchers: the four that return a value or None.
ValueFetchers ==
    { "fetch_settings", "get_timezone", "get_timezone_offset", "get_local_date" }

\* C35: fetch_settings (and likewise the TimeAPI fetchers) makes at most
\* retries attempts, returns the result of the first successful attempt
\* without making further attempts, returns None only after every attempt
\* failed, and waits 2 seconds between attempts but not after the last one.
C35_FetchersRetryThenGiveUp ==
    util.fn \in ValueFetchers =>
        LET responses == util.args[1]
            retries   == util.args[2]
            made      == Cardinality(Requests(util.result.events))
            good      == { k \in 1 .. retries : responses[k].kind = "ok" }
        IN /\ made <= retries
           /\ util.result.events = PacedAttempts(made)
           /\ good # {} =>
                 /\ util.result.ok
                 /\ made \in good /\ \A k \in good : made <= k
                 /\ util.result.value = responses[made].value
           /\ good = {} => (~util.result.ok /\ made = retries)

\* C35 witness: a fetch_settings call with three retries whose first request
\* raised, whose second got a usable response and whose third would have got
\* another one: two requests with one wait between them, and the second
\* response's value returned.
C35_Witness ==
    /\ util.fn = "fetch_settings"
    /\ util.args[2] = 3
    /\ util.args[1][1].kind = "raises"
    /\ util.args[1][2].kind = "ok" /\ util.args[1][3].kind = "ok"
    /\ util.result.ok /\ util.result.value = 2
    /\ util.result.events = <<<<"get", 1>>, <<"sleep", 2>>, <<"get", 2>>>>

\* startup() obtained WiFi, the timezone, its offset, the local date and the
\* settings.
ObtainedAll ==
    /\ startup.wifi /\ startup.timezone /\ startup.timezone_offset
    /\ startup.local_date /\ startup.settings

C36_FailureReached ==
    /\ startup.failed = "local_date" /\ startup.timezone_offset
    /\ strip = "error" /\ pc = "halted"

\* C37: for any threshold N >= 1 and any sample sequence, update never
\* returns consistent_dark and consistent_light both true, so no tick both
\* renders and triggers a rollover.
C37_FlagsNeverBothTrue ==
    (tick.sampled /\ consecutive_needed >= 1) =>
        /\ ~(tick.consistent_dark /\ tick.consistent_light)
        /\ \A in_time_range \in BOOLEAN :
              ~(/\ DisplayDecision(in_time_range, tick.consistent_dark,
                                   tick.consistent_light) = "render"
                /\ ShouldRefresh(in_time_range, tick.consistent_light))

\* C37 witness: with threshold 1, a light sample straight after a dark one:
\* the update returns consistent_light alone, the one before returned
\* consistent_dark alone.
C37_Witness ==
    /\ consecutive_needed = 1
    /\ Len(samples) >= 2
    /\ samples[Len(samples) - 1] > LDR_THRESHOLD
    /\ samples[Len(samples)] <= LDR_THRESHOLD
    /\ tick.consistent_light /\ ~tick.consistent_dark

\* What update returned for the k-th of the readings fed so far (the
\* readings replayed from counters at zero).
RECURSIVE UpdateAt(_)
UpdateAt(k) ==
    IF k = 0
    THEN [consecutive_dark_count |-> 0, consecutive_light_count |-> 0,
          is_dark |-> FALSE, consistent_dark |-> FALSE,
          consistent_light |-> FALSE]
    ELSE LET before == UpdateAt(k - 1)
         IN LightSensorUpdate(before.consecutive_dark_count,
                              before.consecutive_light_count,
                              consecutive_needed, samples[k])

C39_RolloverEveryLightTick ==
    [][(/\ ticks' = ticks + 1
        /\ tick'.sampled /\ ~tick'.is_dark
        /\ tick'.timed /\ tick'.in_time_range)
          => /\ consecutive_light_count' = consecutive_light_count + 1
             /\ consecutive_light_count' >= consecutive_needed
                   => tick'.refresh # "none"
             /\ tick.refresh # "none" => tick'.refresh # "none"
             /\ tick'.refresh = "done"
                   => /\ countdown_state' # countdown_state
                      /\ objects'[countdown_state'].animation_phase = 0
                      /\ animation_engine'.state = countdown_state']_vars

\* C39 witness: the second tick after the one with the N-th consecutive
\* light sample, all in the window: a third rollover in a row has rebuilt
\* the state, phase 0, and the light counter is N + 2.
C39_Witness ==
    /\ consecutive_light_count = consecutive_needed + 2
    /\ tick.in_time_range /\ tick.consistent_light
    /\ tick.refresh = "done"
    /\ countdown_state = ticks
    /\ Current.animation_phase = 0

\* The pixels of the span computed by the last BlockSpan call, and of the
\* span of another day index of the same layout.
ComputedSpan == SpanPixels(util.result)

SpanInLayout(day_index) ==
    SpanPixels(BlockSpan(util.args[1], util.args[2], util.args[3], day_index))

====
